---- MODULE Spec2Model ----
(***************************************************************************)
(* Orb battle: the tick loop of battle.py main() with the pymunk collision *)
(* callbacks of engine/physics.py and the entity state of                  *)
(* engine/game_objects.py.                                                 *)
(*                                                                         *)
(* Positions and velocities are not represented: which shapes begin to     *)
(* touch in a physics sub-step, and which orbs lie within a bomb's blast   *)
(* radius, are nondeterministic.  Game time is not represented in this     *)
(* specification either: whether the director's cadence and the weighted   *)
(* draw produce a pickup in a frame, and of which kind, is nondeterministic*)
(* within the rules that do not depend on time.                            *)
(***************************************************************************)
EXTENDS Integers, Sequences, FiniteSets, TLC

\* ---------------------------------------------------------------- bounds
MaxHP == 2              \* largest configured max_hp of an orb
MaxSpawns == 2          \* pickups created over the whole run
MaxPickups == 1         \* stands for MAX_PICKUPS_ON_SCREEN in this model
DURATION_SECONDS == 6   \* cfg "duration"
GAME_FPS == 2           \* cfg "fps" of the configuration modelled
ORB_RADIUS_CFG == 50    \* cfg "orb_radius"
GridStep == 50          \* spacing of the positions of BombSpec
GridMax == 200          \* largest coordinate of BombSpec
DirectorSeconds == 70   \* cfg "duration" of the director specifications
MaxCollected == 1       \* pickups collected over a run of DirectorSpec
GuardSeconds == 7       \* cfg "duration" of GuardSpec
GuardCollected == 3     \* pickups collected over a run of GuardSpec

\* ------------------------------------------------------ program constants
PHYSICS_SUBSTEPS == 3
DEFAULT_BOMB_DAMAGE == 3
SAW_DAMAGE == 1
HEAL_AMOUNT == 1
max_bombs_per_game == 2
DEFAULT_BOMB_RADIUS == 150
PICKUP_RADIUS_CFG == 20

Orbs == {"A", "B", "C"}
Kinds == {"saw", "heart", "shield", "bomb"}
None == "None"
NoSaw == 0

frames_to_generate == DURATION_SECONDS * GAME_FPS
VictoryFrames == 4 * GAME_FPS

VARIABLES
    max_hp,             \* Orb.max_hp, per orb
    hp,                 \* Orb.hp
    is_shielded,        \* Orb.is_shielded
    has_saw,            \* Orb.has_saw: id of the Saw object, NoSaw for None
    active_saws,        \* phys.active_saws: list of Saw objects
    saws_made,          \* number of Saw objects constructed (object identity)
    pickups,            \* main's pickups list of Pickup objects
    spawned,            \* number of Pickup objects constructed (object identity)
    bomb_count,         \* battle_director.bomb_count
    victory_triggered,  \* game_state["victory_triggered"]
    victory_orb,        \* game_state["victory_orb"]
    winner,             \* main's winner
    win_frame,          \* main's win_frame
    frame_i,            \* main's loop index
    substep,            \* sub-steps of the current frame already stepped
    pc,                 \* position of main: "loop", "physics", "update", "spawn", "done"
    log,                \* the collision callback that ran last, and its branch
    pos,                \* orb.body.position, per orb (BombSpec)
    impulse,            \* the impulse the last explosion applied, per orb (BombSpec)
    speed,              \* length of orb.body.velocity in px/s, per orb (SpeedSpec)
    vel,                \* orb.body.velocity along the x axis in px/s, per orb (PredictSpec)
    arena,              \* game_state's arena size and offset, and the walls of space (PredictSpec)
    pred,               \* the last call of predict_orb_future_path_point and its result
    item_spawn_cooldowns,   \* main's item_spawn_cooldowns
    last_unified,       \* main's last_unified_pickup_spawn_attempt_time
    last_analysis_time, \* battle_director.last_analysis_time
    ai_strategy,        \* main's ai_strategy: <<>> for None, else <<weights_override>>
    time_pressure,      \* the time pressure of the last analysis, in tenths
    health_change_history,  \* battle_director.health_change_history: per orb, the
                            \* signs of its last changes, oldest first
    bombs_made,         \* number of bomb Pickup objects constructed
    spawn_log,          \* the unified spawn attempt of the last frame body and its decision
    assist_log,         \* time of the last emergency spawn, per (orb, kind)
    collected,          \* number of pickups collected by an orb (DirectorSpec)
    events,             \* Director.events: the heap list of the events to come (ScriptSpec)
    event_log,          \* the events whose handler was called, oldest first
    last_tick,          \* the last call of Director.__init__ or Director.tick
    damage_events,      \* battle_director.damage_events, oldest first (RateSpec)
    heal_events,        \* battle_director.heal_events, oldest first
    wall_clock,         \* wall-clock time passed since the start of main
    changes,            \* every health change tracked, with the game time it happened at
    damage_rate         \* the last call of calculate_damage_rate, its result, and
                        \* the number of changes tracked before it

\* The variables that only the specifications with geometry use.
geom == <<pos, impulse, speed, vel, arena, pred>>

\* The variables that only the specifications of the director use.
director == <<item_spawn_cooldowns, last_unified, last_analysis_time, ai_strategy,
              time_pressure, health_change_history, bombs_made, spawn_log,
              assist_log, collected>>

\* The variables that only the specification of the scripted events uses.
script == <<events, event_log, last_tick>>

\* The variables that only the specification of the damage rate uses.
rate == <<damage_events, heal_events, wall_clock, changes, damage_rate>>

vars == <<max_hp, hp, is_shielded, has_saw, active_saws, saws_made, pickups,
          spawned, bomb_count, victory_triggered, victory_orb, winner,
          win_frame, frame_i, substep, pc, log, geom, director, script, rate>>

\* log: the handler ("saw" or "pickup"), the orb of the contact, the id of the
\* Saw or Pickup object touched, the saw's owner when the handler began, the
\* branch the handler took, and the orbs whose health_change_callback it invoked.
NoLog == [handler |-> "none", orb |-> None, target |-> 0, owner |-> None,
          branch |-> "none", notified |-> {}]

\* No impulse applied; positions are not represented in Spec.
NoImpulse == [o \in Orbs |-> [dir |-> 0, mult |-> 0]]
NoSpeed == [o \in Orbs |-> 0]
NoArena == [current_width |-> 0, offset_x |-> 0, wall_width |-> 0,
            wall_offset |-> 0, last_arena_update |-> 0]
NoPred == [kind |-> "none", target |-> None, others |-> {},
           pos |-> NoSpeed, vel |-> NoSpeed, duration |-> 0, num_steps |-> 0,
           raised |-> FALSE, result |-> 0, spawn |-> 0]
\* No Director of scripted events is constructed by main.
NoEvent == [t |-> 0, type |-> "none", id |-> 0, payload |-> {}]
NoTick == [kind |-> "none", now |-> 0, before |-> <<>>, logged |-> 0,
           raised |-> FALSE, offender |-> NoEvent, handed |-> <<>>]
NoScript == events = <<>> /\ event_log = <<>> /\ last_tick = NoTick

\* The director's event lists at construction.
NoRate ==
    /\ damage_events = <<>> /\ heal_events = <<>> /\ wall_clock = 0
    /\ changes = <<>> /\ damage_rate = [time |-> -1000, net |-> 0, seen |-> 0]
NoPrediction == vel = NoSpeed /\ arena = NoArena /\ pred = NoPred
NoGeometry ==
    /\ pos = [o \in Orbs |-> 0] /\ impulse = NoImpulse /\ speed = NoSpeed
    /\ NoPrediction

\* The director's state at construction; Spec and BombSpec leave it there.
AssistKinds == {"heart", "saw", "shield"}
NoTime == -1000
NoSpawn == [time |-> NoTime, path |-> "none", kind |-> None, target |-> None]
DirectorAtStart ==
    /\ item_spawn_cooldowns = [k \in Orbs \X AssistKinds |-> NoTime]
    /\ last_unified = 0
    /\ last_analysis_time = 0
    /\ ai_strategy = <<>>
    /\ time_pressure = 0
    /\ health_change_history = [o \in Orbs |-> <<>>]
    /\ bombs_made = 0
    /\ spawn_log = NoSpawn
    /\ assist_log = [k \in Orbs \X AssistKinds |-> NoTime]
    /\ collected = 0
    /\ NoScript
    /\ NoRate

Max(a, b) == IF a >= b THEN a ELSE b
Min(a, b) == IF a <= b THEN a ELSE b

Living == {o \in Orbs : hp[o] > 0}

\* ------------------------------------------------------------ Orb methods
\* take_hit without "max(0, ...)".
take_hit_unfloored(o, dmg) ==
    IF is_shielded[o]
    THEN [hp |-> hp[o], is_shielded |-> FALSE, notified |-> FALSE]
    ELSE IF hp[o] <= 0
    THEN [hp |-> hp[o], is_shielded |-> FALSE, notified |-> FALSE]
    ELSE [hp |-> hp[o] - dmg, is_shielded |-> FALSE, notified |-> TRUE]

\* take_hit whose shield branch returns without "self.is_shielded = False".
take_hit_keeps_shield(o, dmg) ==
    IF is_shielded[o]
    THEN [hp |-> hp[o], is_shielded |-> TRUE, notified |-> FALSE]
    ELSE IF hp[o] <= 0
    THEN [hp |-> hp[o], is_shielded |-> FALSE, notified |-> FALSE]
    ELSE LET new_hp == Max(0, hp[o] - dmg)
         IN  [hp |-> new_hp, is_shielded |-> FALSE, notified |-> new_hp # hp[o]]

\* Orb.take_hit(dmg) on orb o: the orb's new hp and shield, and whether the
\* health_change_callback was invoked.
take_hit(o, dmg) ==
    IF is_shielded[o]
    THEN [hp |-> hp[o], is_shielded |-> FALSE, notified |-> FALSE]
    ELSE IF hp[o] <= 0
    THEN [hp |-> hp[o], is_shielded |-> FALSE, notified |-> FALSE]
    ELSE LET new_hp == Max(0, hp[o] - dmg)
         IN  [hp |-> new_hp, is_shielded |-> FALSE, notified |-> new_hp # hp[o]]

\* Orb.heal(amount) on orb o.
heal(o, amount) ==
    IF hp[o] >= max_hp[o]
    THEN [hp |-> hp[o], notified |-> FALSE]
    ELSE LET new_hp == Min(max_hp[o], hp[o] + amount)
         IN  [hp |-> new_hp, notified |-> new_hp # hp[o]]

\* ------------------------------------------------------------ Saw.destroy
\* Saw.destroy() on one Saw object: alive and owner are cleared.
SawDestroyed(s) == [s EXCEPT !.alive = FALSE, !.owner = None]

\* Saw.destroy() without "self.owner.has_saw = None".
HasSawKept(saws, D, hs) == hs

\* The has_saw fields after Saw.destroy() of every saw in the set D of
\* positions of the list saws: an alive saw clears its owner's has_saw when
\* that field refers to the saw itself.
HasSawAfterDestroy(saws, D, hs) ==
    [o \in Orbs |->
        IF \E i \in D : saws[i].alive /\ saws[i].owner = o /\ hs[o] = saws[i].id
        THEN NoSaw ELSE hs[o]]

\* Pickup.destroy without "self.alive = False".
PickupKept(p) == p

\* Pickup.destroy(space)
PickupDestroyed(p) == [p EXCEPT !.alive = FALSE]

AlivePositions(pk) == {i \in DOMAIN pk : pk[i].alive}

\* The configurations of cfg["orbs"]: a max_hp per orb.  The orbs are
\* interchangeable, so they are named in the order of their max_hp.
OrbConfigs == {m \in [Orbs -> 1..MaxHP] : m["A"] <= m["B"] /\ m["B"] <= m["C"]}

\* The state main builds from cfg["orbs"] before the frame loop: each Orb
\* starts with hp = max_hp (Orb.__post_init__), no shield and no saw.
ConstructedObjects ==
    /\ hp = max_hp
    /\ is_shielded = [o \in Orbs |-> FALSE]
    /\ has_saw = [o \in Orbs |-> NoSaw]
    /\ active_saws = <<>>
    /\ saws_made = 0
    /\ pickups = <<>>
    /\ spawned = 0
    /\ bomb_count = 0
    /\ victory_triggered = FALSE
    /\ victory_orb = None
    /\ winner = None
    /\ win_frame = 0
    /\ frame_i = 0
    /\ substep = 0
    /\ pc = "loop"
    /\ log = NoLog

Constructed ==
    /\ ConstructedObjects
    /\ NoGeometry
    /\ DirectorAtStart

Init ==
    /\ max_hp \in OrbConfigs
    /\ Constructed

\* ------------------------------------------------- MainBattleContext
\* trigger_victory(winning_orb): the victory state is recorded, every pickup
\* is destroyed and the list cleared, every saw of active_saws is destroyed
\* and the list cleared.
trigger_victory(winning_orb) ==
    /\ victory_triggered' = TRUE
    /\ victory_orb' = winning_orb
    /\ pickups' = <<>>
    /\ has_saw' = HasSawAfterDestroy(active_saws, DOMAIN active_saws, has_saw)
    /\ active_saws' = <<>>

\* ------------------------------------------------- register_saw_hits.begin
\* the "safety check for None references"
SawRefsMissing(saw) == saw.owner = None

\* The ignore test without "orb_hit_by_saw == saw.owner".
SawIgnoresDeadOnly(saw, o) == ~saw.alive

\* "if orb_hit_by_saw == saw.owner or not saw.alive"
SawIgnores(saw, o) == o = saw.owner \/ ~saw.alive

\* will_be_killing_hit
will_be_killing_hit(o, was_shielded_at_impact, dmg) ==
    ~was_shielded_at_impact /\ hp[o] <= dmg

\* The victory sequence is triggered in the unshielded branch on a killing hit.
SawHitTriggersVictory(o, was_shielded_at_impact, dmg) ==
    ~was_shielded_at_impact /\ will_be_killing_hit(o, was_shielded_at_impact, dmg)

\* begin(arbiter) of the orb-saw handler: the shape of the saw at position i
\* of active_saws begins to touch orb o.
SawBegin(i, o) ==
    /\ pc = "physics"
    /\ i \in DOMAIN active_saws
    /\ LET saw == active_saws[i] IN
       IF SawRefsMissing(saw)
       THEN /\ log' = [handler |-> "saw", orb |-> o, target |-> saw.id, owner |-> None,
                       branch |-> "skip", notified |-> {}]
            /\ UNCHANGED <<hp, is_shielded, has_saw, active_saws, pickups,
                           victory_triggered, victory_orb>>
       ELSE IF SawIgnores(saw, o)
       THEN /\ log' = [handler |-> "saw", orb |-> o, target |-> saw.id, owner |-> saw.owner,
                       branch |-> "ignored", notified |-> {}]
            /\ UNCHANGED <<hp, is_shielded, has_saw, active_saws, pickups,
                           victory_triggered, victory_orb>>
       ELSE LET was_shielded_at_impact == is_shielded[o]
                th == take_hit(o, SAW_DAMAGE)
            IN  /\ hp' = [hp EXCEPT ![o] = th.hp]
                /\ is_shielded' = [is_shielded EXCEPT ![o] = th.is_shielded]
                /\ IF SawHitTriggersVictory(o, was_shielded_at_impact, SAW_DAMAGE)
                   THEN trigger_victory(saw.owner)
                   ELSE /\ active_saws' = [active_saws EXCEPT ![i] = SawDestroyed(saw)]
                        /\ has_saw' = HasSawAfterDestroy(active_saws, {i}, has_saw)
                        /\ UNCHANGED <<pickups, victory_triggered, victory_orb>>
                /\ log' = [handler |-> "saw", orb |-> o, target |-> saw.id, owner |-> saw.owner,
                           branch |-> IF was_shielded_at_impact THEN "shield"
                                      ELSE IF will_be_killing_hit(o, was_shielded_at_impact, SAW_DAMAGE)
                                      THEN "kill" ELSE "hit",
                           notified |-> IF th.notified THEN {o} ELSE {}]
    /\ UNCHANGED <<max_hp, saws_made, spawned, bomb_count, winner, win_frame,
                   frame_i, substep, pc>>
    /\ UNCHANGED <<geom, director, script, rate>>

\* ---------------------------------------------- register_pickup_handler.begin
\* The pre-pickup checks without "not pickup.alive".
PickupUsableAlways(p) == TRUE

\* "Generic pre-pickup checks": the handler acts only on an alive pickup.
PickupUsable(p) == p.alive

\* The saw branch without the "if not orb.has_saw" test.
CanEquipSawAlways(o) == TRUE

\* "if not orb.has_saw"
CanEquipSaw(o) == has_saw[o] = NoSaw

\* The orbs the bomb loop hits: the orbs of InRadius (those within
\* DEFAULT_BOMB_RADIUS of the exploding orb) that pass "if hp <= 0: continue".
BombTargets(InRadius) == {r \in InRadius : ~(hp[r] <= 0)}

\* begin(arbiter) of the orb-pickup handler: orb o begins to touch the pickup
\* at position i of pickups.
PickupBegin(i, o) ==
    /\ pc = "physics"
    /\ i \in DOMAIN pickups
    /\ LET pickup == pickups[i]
           consumed == [pickups EXCEPT ![i] = PickupDestroyed(pickup)]
       IN
       IF ~PickupUsable(pickup)
       THEN /\ log' = [handler |-> "pickup", orb |-> o, target |-> pickup.id, owner |-> None,
                       branch |-> "dead", notified |-> {}]
            /\ UNCHANGED <<hp, is_shielded, has_saw, active_saws, saws_made, pickups>>
       ELSE
         /\ pickups' = consumed
         /\ CASE pickup.kind = "saw" ->
                   IF CanEquipSaw(o)
                   THEN /\ saws_made' = saws_made + 1
                        /\ has_saw' = [has_saw EXCEPT ![o] = saws_made + 1]
                        /\ active_saws' = Append(active_saws,
                               [id |-> saws_made + 1, owner |-> o, alive |-> TRUE])
                        /\ log' = [handler |-> "pickup", orb |-> o, target |-> pickup.id, owner |-> None,
                                   branch |-> "saw_new", notified |-> {}]
                        /\ UNCHANGED <<hp, is_shielded>>
                   ELSE /\ log' = [handler |-> "pickup", orb |-> o, target |-> pickup.id, owner |-> None,
                                   branch |-> "saw_has", notified |-> {}]
                        /\ UNCHANGED <<hp, is_shielded, has_saw, active_saws, saws_made>>
              [] pickup.kind = "heart" ->
                   LET h == heal(o, HEAL_AMOUNT) IN
                   /\ hp' = [hp EXCEPT ![o] = h.hp]
                   /\ log' = [handler |-> "pickup", orb |-> o, target |-> pickup.id, owner |-> None,
                              branch |-> "heart",
                              notified |-> IF h.notified THEN {o} ELSE {}]
                   /\ UNCHANGED <<is_shielded, has_saw, active_saws, saws_made>>
              [] pickup.kind = "shield" ->
                   /\ is_shielded' = [is_shielded EXCEPT ![o] = TRUE]
                   /\ log' = [handler |-> "pickup", orb |-> o, target |-> pickup.id, owner |-> None,
                              branch |-> "shield", notified |-> {}]
                   /\ UNCHANGED <<hp, has_saw, active_saws, saws_made>>
              [] pickup.kind = "bomb" ->
                   \E InRadius \in SUBSET Orbs :
                      /\ o \in InRadius
                      /\ LET T == BombTargets(InRadius) IN
                         /\ hp' = [r \in Orbs |->
                                IF r \in T THEN take_hit(r, DEFAULT_BOMB_DAMAGE).hp
                                ELSE hp[r]]
                         /\ is_shielded' = [r \in Orbs |->
                                IF r \in T THEN take_hit(r, DEFAULT_BOMB_DAMAGE).is_shielded
                                ELSE is_shielded[r]]
                         /\ log' = [handler |-> "pickup", orb |-> o, target |-> pickup.id, owner |-> None,
                                    branch |-> "bomb",
                                    notified |-> {r \in T :
                                        take_hit(r, DEFAULT_BOMB_DAMAGE).notified}]
                      /\ UNCHANGED <<has_saw, active_saws, saws_made>>
    /\ UNCHANGED <<max_hp, spawned, bomb_count, victory_triggered, victory_orb,
                   winner, win_frame, frame_i, substep, pc>>
    /\ UNCHANGED <<geom, director, script, rate>>

\* ------------------------------------------------------------- main loop
\* A space.step(sub_dt) that never returns.
StepNeverReturns ==
    /\ pc = "physics"
    /\ UNCHANGED vars

\* One space.step(sub_dt) of the sub-stepping loop returns.
StepDone ==
    /\ pc = "physics"
    /\ substep' = substep + 1
    /\ pc' = IF substep + 1 = PHYSICS_SUBSTEPS THEN "update" ELSE "physics"
    /\ log' = NoLog
    /\ UNCHANGED <<max_hp, hp, is_shielded, has_saw, active_saws, saws_made,
                   pickups, spawned, bomb_count, victory_triggered, victory_orb,
                   winner, win_frame, frame_i>>
    /\ UNCHANGED <<geom, director, script, rate>>

\* Head of the frame loop and update_arena_size: _cleanup_invalid_pickups
\* destroys and removes the alive pickups that the shrunken arena leaves
\* outside (the positions at Outside).
BeginFrame ==
    /\ pc = "loop"
    /\ frame_i < frames_to_generate
    /\ \E Outside \in SUBSET {pickups[i].id : i \in AlivePositions(pickups)} :
          pickups' = SelectSeq(pickups, LAMBDA p : p.id \notin Outside)
    /\ pc' = "physics"
    /\ substep' = 0
    /\ UNCHANGED <<max_hp, hp, is_shielded, has_saw, active_saws, saws_made,
                   spawned, bomb_count, victory_triggered, victory_orb,
                   winner, win_frame, frame_i, log>>
    /\ UNCHANGED <<geom, director, script, rate>>

\* The frame loop runs out of frames.
LoopExhausted ==
    /\ pc = "loop"
    /\ frame_i >= frames_to_generate
    /\ pc' = "done"
    /\ UNCHANGED <<max_hp, hp, is_shielded, has_saw, active_saws, saws_made,
                   pickups, spawned, bomb_count, victory_triggered, victory_orb,
                   winner, win_frame, frame_i, substep, log>>
    /\ UNCHANGED <<geom, director, script, rate>>

\* ------------------------------------------------- end of the frame body
\* Saw.update: "if not self.owner or self.owner.hp <= 0 or not self.alive"
SawOwnerGone(s) ==
    \/ s.owner = None
    \/ (s.owner # None /\ hp[s.owner] <= 0)
    \/ ~s.alive

\* "Update active saws": the positions of active_saws whose saw is alive and
\* self-destructs in Saw.update.
SelfDestructing == {i \in DOMAIN active_saws :
                        active_saws[i].alive /\ SawOwnerGone(active_saws[i])}

\* active_saws after the loop: dead saws and self-destructed saws are removed.
SawsAfterUpdate == SelectSeq(active_saws, LAMBDA s : s.alive /\ ~SawOwnerGone(s))

\* "Update active pickups": pickups that are not alive leave the list.
PickupsAfterCleanup(pk) == SelectSeq(pk, LAMBDA p : p.alive)

\* critical_orbs of generate_immediate_spawns
critical_orbs == {o \in Orbs : hp[o] < max_hp[o] /\ hp[o] <= 1}

\* The spawn plans generate_immediate_spawns can return, whatever the time:
\* an optional saw for a dramatic finish (two living orbs, one at hp <= 1), an
\* optional heart for a critical orb, and the two forced saws of the last
\* seconds.
ImmediatePlans ==
    LET opt1 == {<<>>} \cup (IF Cardinality(Living) = 2 /\ \E o \in Living : hp[o] <= 1
                              THEN {<<"saw">>} ELSE {})
        opt2 == {<<>>} \cup (IF critical_orbs # {} THEN {<<"heart">>} ELSE {})
        opt3 == {<<>>, <<"saw", "saw">>}
    IN  {a \o b \o c : a \in opt1, b \in opt2, c \in opt3}

\* The cap test without a cap.
UnderCapAlways(n) == TRUE

\* "len(pickups) < MAX_PICKUPS_ON_SCREEN", the test of both spawn paths.
UnderCap(n) == n < MaxPickups

\* "Process immediate spawns": each plan entry becomes a pickup while the list
\* is shorter than the cap.  st is [pickups, spawned].
RECURSIVE ProcessImmediate(_, _)
ProcessImmediate(st, plan) ==
    IF plan = <<>> THEN st
    ELSE IF UnderCap(Len(st.pickups))
    THEN ProcessImmediate(
            [pickups |-> Append(st.pickups,
                 [id |-> st.spawned + 1, kind |-> Head(plan), alive |-> TRUE]),
             spawned |-> st.spawned + 1],
            Tail(plan))
    ELSE ProcessImmediate(st, Tail(plan))

\* The kinds the unified spawn can produce for some living target: a heart
\* needs a target below max_hp (weighted draw) or at the low-health threshold
\* (emergency assist); a bomb needs the bomb counter below its cap.
LOW_HEALTH_THRESHOLD == 1
UnifiedKinds ==
    IF Living = {} THEN {}
    ELSE {"saw", "shield"}
         \cup (IF \E o \in Living : hp[o] < max_hp[o] \/ hp[o] <= LOW_HEALTH_THRESHOLD
               THEN {"heart"} ELSE {})
         \cup (IF bomb_count < max_bombs_per_game THEN {"bomb"} ELSE {})

\* "living = [o for o in orbs if o.hp > 0]; if winner is None and
\* len(living) == 1 and len(orbs) > 1: winner = living[0]"
WinnerBySurvival ==
    IF winner = None /\ Cardinality(Living) = 1 /\ Cardinality(Orbs) > 1
    THEN CHOOSE o \in Living : TRUE
    ELSE winner

\* The adoption of victory_orb without the "not winner" test.
WinnerByVictoryAlways(w) ==
    IF victory_triggered THEN victory_orb ELSE w

\* "if not winner and victory_triggered: winner = victory_orb"
WinnerByVictory(w) ==
    IF w = None /\ victory_triggered THEN victory_orb ELSE w

\* The rest of the frame body after the sub-stepping loop: saw updates,
\* pickup cleanup, the director's immediate spawns, the unified spawn, the
\* winner check and the victory check that breaks out of the loop.
FinishFrame ==
    /\ pc = "update"
    /\ LET D   == SelfDestructing
           pk0 == PickupsAfterCleanup(pickups)
       IN
       /\ has_saw' = HasSawAfterDestroy(active_saws, D, has_saw)
       /\ active_saws' = SawsAfterUpdate
       /\ \E plan \in ImmediatePlans, uni \in UnifiedKinds \cup {None} :
            LET st1 == ProcessImmediate([pickups |-> pk0, spawned |-> spawned], plan)
                st2 == IF uni # None /\ UnderCap(Len(st1.pickups))
                       THEN [pickups |-> Append(st1.pickups,
                                [id |-> st1.spawned + 1, kind |-> uni, alive |-> TRUE]),
                             spawned |-> st1.spawned + 1]
                       ELSE st1
            IN  /\ st2.spawned <= MaxSpawns
                /\ uni # None => UnderCap(Len(st1.pickups))
                /\ pickups' = st2.pickups
                /\ spawned' = st2.spawned
                /\ bomb_count' = IF uni = "bomb" THEN bomb_count + 1 ELSE bomb_count
    /\ LET w1 == WinnerBySurvival
           w2 == WinnerByVictory(w1)
           wf == IF w2 # winner THEN frame_i ELSE win_frame
       IN
       /\ winner' = w2
       /\ win_frame' = wf
       /\ IF w2 # None /\ ~(frame_i - wf < VictoryFrames)
          THEN pc' = "done" /\ frame_i' = frame_i
          ELSE pc' = "loop" /\ frame_i' = frame_i + 1
    /\ log' = NoLog
    /\ UNCHANGED <<max_hp, hp, is_shielded, saws_made, victory_triggered,
                   victory_orb, substep>>
    /\ UNCHANGED <<geom, director, script, rate>>

Next ==
    \/ BeginFrame
    \/ \E i \in DOMAIN active_saws, o \in Orbs : SawBegin(i, o)
    \/ \E i \in DOMAIN pickups, o \in Orbs : PickupBegin(i, o)
    \/ StepDone
    \/ FinishFrame
    \/ LoopExhausted

Spec == Init /\ [][Next]_vars

TypeOK ==
    /\ max_hp \in [Orbs -> 1..MaxHP]
    /\ hp \in [Orbs -> Int]
    /\ is_shielded \in [Orbs -> BOOLEAN]
    /\ has_saw \in [Orbs -> 0..MaxSpawns]
    /\ bomb_count \in 0..max_bombs_per_game
    /\ winner \in Orbs \cup {None}
    /\ pc \in {"loop", "physics", "update", "done"}

\* ------------------------------------------------------------- BombSpec
\* The bomb branch of the orb-pickup handler with positions, on one axis: a
\* bomb pickup lies at the origin, the orbs at points of Grid, and an orb that
\* touches the pickup sets it off.
Grid == {x \in -GridMax..GridMax : x % GridStep = 0}

Abs(x) == IF x < 0 THEN -x ELSE x

\* "distance_vec = orb_in_game.body.position - exploding_orb.body.position"
distance_vec(orb_in_game, exploding_orb) == pos[orb_in_game] - pos[exploding_orb]

\* Circle shapes do not overlap: the centres of two orbs are at least two
\* radii apart.
OrbsApart(ps) == \A a, b \in Orbs : a # b => Abs(ps[a] - ps[b]) >= 2 * ORB_RADIUS_CFG

\* The orb's circle and the pickup's circle touch.
Touching(o, pickup) == Abs(pos[o] - pickup.at) <= ORB_RADIUS_CFG + PICKUP_RADIUS_CFG

\* "force_multiplier = 1.5 if orb_in_game == exploding_orb else 1.0", in tenths
force_multiplier(orb_in_game, exploding_orb) ==
    IF orb_in_game = exploding_orb THEN 15 ELSE 10

\* The orbs the bomb loop hits: "if orb_in_game.hp <= 0: continue" and
\* "if distance <= DEFAULT_BOMB_RADIUS", the distance being measured from the
\* exploding orb.
BlastHits(exploding_orb) ==
    {r \in Orbs : /\ ~(hp[r] <= 0)
                  /\ Abs(distance_vec(r, exploding_orb)) <= DEFAULT_BOMB_RADIUS}

BombInit ==
    /\ max_hp \in OrbConfigs
    /\ hp \in {h \in [Orbs -> 0..MaxHP] : \A o \in Orbs : h[o] <= max_hp[o]}
    /\ is_shielded \in [Orbs -> BOOLEAN]
    /\ has_saw = [o \in Orbs |-> NoSaw]
    /\ active_saws = <<>>
    /\ saws_made = 0
    /\ pickups = <<[id |-> 1, kind |-> "bomb", alive |-> TRUE, at |-> 0]>>
    /\ spawned = 1
    /\ bomb_count = 1
    /\ victory_triggered = FALSE
    /\ victory_orb = None
    /\ winner = None
    /\ win_frame = 0
    /\ frame_i = 0
    /\ substep = 0
    /\ pc = "physics"
    /\ log = NoLog
    /\ pos \in {ps \in [Orbs -> Grid] : OrbsApart(ps)}
    /\ impulse = NoImpulse
    /\ speed = NoSpeed
    /\ NoPrediction
    /\ DirectorAtStart

\* begin(arbiter) of the orb-pickup handler for a bomb: orb o touches the
\* alive bomb at position i of pickups.  rnd is the direction of the random
\* impulse drawn when the distance is 0.
BombExplodes(i, o) ==
    /\ pc = "physics"
    /\ i \in DOMAIN pickups
    /\ PickupUsable(pickups[i]) /\ pickups[i].kind = "bomb"
    /\ Touching(o, pickups[i])
    /\ LET T == BlastHits(o) IN
       /\ hp' = [r \in Orbs |->
              IF r \in T THEN take_hit(r, DEFAULT_BOMB_DAMAGE).hp ELSE hp[r]]
       /\ is_shielded' = [r \in Orbs |->
              IF r \in T THEN take_hit(r, DEFAULT_BOMB_DAMAGE).is_shielded
              ELSE is_shielded[r]]
       /\ \E rnd \in {-1, 1} :
            impulse' = [r \in Orbs |->
              IF r \in T
              THEN [dir |-> IF distance_vec(r, o) > 0 THEN 1
                            ELSE IF distance_vec(r, o) < 0 THEN -1 ELSE rnd,
                    mult |-> force_multiplier(r, o)]
              ELSE [dir |-> 0, mult |-> 0]]
       /\ log' = [handler |-> "pickup", orb |-> o, target |-> pickups[i].id,
                  owner |-> None, branch |-> "bomb",
                  notified |-> {r \in T : take_hit(r, DEFAULT_BOMB_DAMAGE).notified}]
    /\ pickups' = [pickups EXCEPT ![i] = PickupDestroyed(pickups[i])]
    /\ UNCHANGED <<max_hp, has_saw, active_saws, saws_made, spawned, bomb_count,
                   victory_triggered, victory_orb, winner, win_frame, frame_i,
                   substep, pc, pos, speed, vel, arena, pred>>
    /\ UNCHANGED <<director, script, rate>>

BombNext == \E i \in DOMAIN pickups, o \in Orbs : BombExplodes(i, o)

BombSpec == BombInit /\ [][BombNext]_vars

\* ------------------------------------------- PredictiveBattleDirector
\* Times are counted in frames, 1 / GAME_FPS of a second each, so that
\* current_game_time_sec = frame_i / GAME_FPS is the frame index itself and a
\* duration of s seconds is Sec(s); time pressure is in tenths, weights are in
\* hundredths.
min_game_duration == 61
max_game_duration == 70
early_game_phase == 25
mid_game_phase == 45

Sec(s) == s * GAME_FPS

\* current_game_time_sec
now == frame_i

\* get_game_phase
get_game_phase(current_time) ==
    IF current_time < Sec(early_game_phase) THEN "early"
    ELSE IF current_time < Sec(mid_game_phase) THEN "mid"
    ELSE "end"

\* self.phase_weights
phase_weights ==
    [early |-> [heart |-> 2000, saw |-> 10000, shield |-> 3000, bomb |-> 100],
     mid   |-> [heart |-> 1500, saw |-> 15000, shield |-> 2500, bomb |-> 200],
     end   |-> [heart |-> 1000, saw |-> 20000, shield |-> 2000, bomb |-> 300]]

\* weights[k] *= num / den
Times(w, k, num, den) == [w EXCEPT ![k] = (w[k] * num) \div den]

\* 'health_disparity' of analyze_orb_states
health_disparity ==
    LET hi == CHOOSE o \in Orbs : \A q \in Orbs : hp[q] <= hp[o]
        lo == CHOOSE o \in Orbs : \A q \in Orbs : hp[q] >= hp[o]
    IN  hp[hi] - hp[lo]

full_health_orbs == {o \in Orbs : hp[o] >= max_hp[o]}
damaged_orbs == {o \in Orbs : hp[o] < max_hp[o]}

\* The "ENFORCE BOMB LIMIT" step of adjust_weights_for_situation
BombLimited(w) ==
    IF bomb_count >= max_bombs_per_game THEN [w EXCEPT !.bomb = 0] ELSE w

\* The branch before the minimum duration without "weights['bomb'] = 0".
BeforeMinimumWithBombs(w) ==
    Times(Times(Times(w, "heart", 6, 1), "shield", 4, 1), "saw", 3, 2)

\* The branch "if current_time < self.min_game_duration"
BeforeMinimum(w) ==
    [Times(Times(Times(w, "heart", 6, 1), "shield", 4, 1), "saw", 3, 2)
        EXCEPT !.bomb = 0]

\* The branch "elif current_time > self.max_game_duration - 10"
LastSeconds(w) ==
    LET w1 == Times(Times(Times(w, "saw", 3, 1), "heart", 1, 10), "shield", 1, 10)
    IN  IF bomb_count < max_bombs_per_game THEN Times(w1, "bomb", 5, 1) ELSE w1

\* The branch "elif current_time >= self.min_game_duration"
IntelligentTiming(w, tp) ==
    IF tp < -1
    THEN LET w1 == IF Cardinality(full_health_orbs) < Cardinality(Orbs)
                   THEN Times(w, "heart", 3, 1) ELSE Times(w, "heart", 1, 10)
         IN  Times(Times(w1, "shield", 5, 2), "saw", 8, 10)
    ELSE LET w1 == IF Cardinality(full_health_orbs) > 0
                   THEN Times(w, "heart", 3, 10) ELSE w
             w2 == Times(w1, "saw", 2, 1)
         IN  IF health_disparity >= 4
             THEN LET w3 == IF Cardinality(damaged_orbs) > 0
                            THEN Times(Times(w2, "heart", 2, 1), "shield", 3, 2)
                            ELSE w2
                  IN  Times(w3, "saw", 12, 10)
             ELSE w2

\* adjust_weights_for_situation(base_weights, orb_analysis, time_pressure,
\* current_time, orbs)
adjust_weights_for_situation(base_weights, tp, current_time) ==
    LET w0 == BombLimited(base_weights)
        w1 == IF current_time < Sec(min_game_duration) THEN BeforeMinimum(w0)
              ELSE IF current_time > Sec(max_game_duration - 10) THEN LastSeconds(w0)
              ELSE IF current_time >= Sec(min_game_duration) THEN IntelligentTiming(w0, tp)
              ELSE w0
    IN  Times(w1, "saw", 3, 2)

\* 'weights_override' of generate_spawning_strategy
weights_override(tp, current_time) ==
    adjust_weights_for_situation(phase_weights[get_game_phase(current_time)],
                                 tp, current_time)

\* The time pressures calculate_enhanced_time_pressure is modelled to return.
Pressures == {-8, -2, 0, 6, 10}

\* ------------------------------------------------------------ WeightsSpec
\* The weight policy as a function: the time (from the first analysis on), the
\* orbs' hp (the match still on, nobody hurt in the first seconds), the bomb
\* counter and the time pressure are drawn, and one analysis computes the
\* weights.
WeightsInit ==
    /\ max_hp \in OrbConfigs
    /\ hp \in {h \in [Orbs -> 0..MaxHP] :
                /\ \A o \in Orbs : h[o] <= max_hp[o]
                /\ Cardinality({o \in Orbs : h[o] > 0}) >= 2}
    /\ is_shielded = [o \in Orbs |-> FALSE]
    /\ has_saw = [o \in Orbs |-> NoSaw]
    /\ active_saws = <<>>
    /\ saws_made = 0
    /\ pickups = <<>>
    /\ spawned = 0
    /\ bomb_count \in 0..max_bombs_per_game
    /\ victory_triggered = FALSE
    /\ victory_orb = None
    /\ winner = None
    /\ win_frame = 0
    /\ frame_i \in GAME_FPS..(DirectorSeconds * GAME_FPS - 1)
    /\ frame_i < 3 * GAME_FPS => hp = max_hp
    /\ now < Sec(min_game_duration) => bomb_count = 0
    /\ substep = 0
    /\ pc = "update"
    /\ log = NoLog
    /\ NoGeometry
    /\ item_spawn_cooldowns = [k \in Orbs \X AssistKinds |-> NoTime]
    /\ last_unified = 0
    /\ last_analysis_time = 0
    /\ ai_strategy = <<>>
    /\ time_pressure \in Pressures
    /\ health_change_history = [o \in Orbs |-> <<>>]
    /\ bombs_made = bomb_count
    /\ spawn_log = NoSpawn
    /\ assist_log = [k \in Orbs \X AssistKinds |-> NoTime]
    /\ collected = 0
    /\ NoScript
    /\ NoRate

\* analyze_battle_state: the strategy's weights for the pressure computed.
Analyze ==
    /\ pc = "update"
    /\ ai_strategy' = <<weights_override(time_pressure, now)>>
    /\ last_analysis_time' = now
    /\ pc' = "done"
    /\ UNCHANGED <<script, rate, max_hp, hp, is_shielded, has_saw, active_saws, saws_made,
                   pickups, spawned, bomb_count, victory_triggered, victory_orb,
                   winner, win_frame, frame_i, substep, log, geom,
                   item_spawn_cooldowns, last_unified, time_pressure,
                   health_change_history, bombs_made, spawn_log,
                   assist_log, collected>>

WeightsNext == Analyze

WeightsSpec == WeightsInit /\ [][WeightsNext]_vars

\* ------------------------------------------------------------ DirectorSpec
\* The frame loop over a whole match with game time: the director's analysis
\* with its immediate spawns and the unified spawn run as in main().  The
\* physics of a frame is reduced to at most one collision with an effect (a
\* saw hit or a pickup collected), object identities are not represented
\* (pickups carry id 0, has_saw is 1 for an orb that holds a saw).
SAFETY_PERIOD_SECONDS == 61
EMERGENCY_HEART_COOLDOWN_SECONDS == 5
ASSISTANCE_ITEM_COOLDOWN_SECONDS == 5
analysis_interval == 1
PICKUP_KINDS_WEIGHTS == [heart |-> 2500, saw |-> 6000, shield |-> 1500, bomb |-> 200]
Pairs == Orbs \X AssistKinds

\* EMERGENCY_HEART_COOLDOWN_SECONDS for a heart, ASSISTANCE_ITEM_COOLDOWN_SECONDS
\* for a saw or a shield
Cooldown(kind) ==
    IF kind = "heart" THEN Sec(EMERGENCY_HEART_COOLDOWN_SECONDS)
    ELSE Sec(ASSISTANCE_ITEM_COOLDOWN_SECONDS)

\* The cooldown test that always passes.
CooledDownAlways(o, kind, t) == TRUE

\* "current_game_time_sec >= last_..._spawn_time + ..._COOLDOWN_SECONDS"
CooledDown(o, kind, t) == t >= item_spawn_cooldowns[<<o, kind>>] + Cooldown(kind)

\* The kind the emergency checks choose for orb_check = o: heart, then saw if
\* the orb has none, then shield if the orb has none; None when all three fail.
first_eligible(o, t) ==
    IF CooledDown(o, "heart", t) THEN "heart"
    ELSE IF has_saw[o] = NoSaw /\ CooledDown(o, "saw", t) THEN "saw"
    ELSE IF ~is_shielded[o] /\ CooledDown(o, "shield", t) THEN "shield"
    ELSE None

\* "if current_game_time_sec < SAFETY_PERIOD_SECONDS"
InSafetyPeriod(t) == t < Sec(SAFETY_PERIOD_SECONDS)

\* The outcomes of the emergency loop over the shuffled living orbs: the first
\* orb of the shuffle at or below LOW_HEALTH_THRESHOLD for which a check passes.
EmergencyChoices(t) ==
    IF InSafetyPeriod(t)
    THEN {[target |-> o, kind |-> first_eligible(o, t)] :
             o \in {q \in Living : hp[q] <= LOW_HEALTH_THRESHOLD
                                    /\ first_eligible(q, t) # None}}
    ELSE {}

\* The weighted draw's weights for the target: the strategy's override or the
\* default table, hearts disabled for a target at full health, bombs disabled
\* at the bomb limit.
weights_to_use(strategy, target, bc) ==
    LET w0 == IF strategy # <<>> THEN strategy[1] ELSE PICKUP_KINDS_WEIGHTS
        w1 == IF hp[target] >= max_hp[target]
              THEN [Times(w0, "saw", 2, 1) EXCEPT !.heart = 0] ELSE w0
    IN  IF bc >= max_bombs_per_game
        THEN [Times(w1, "saw", 3, 2) EXCEPT !.bomb = 0] ELSE w1

\* track_bomb_spawn without "self.bomb_count += 1".
track_bomb_spawn_uncounted(bc) == bc

\* track_bomb_spawn: the bomb counter after a bomb is spawned.
track_bomb_spawn(bc) == bc + 1

\* "Check bomb limit and enforce rules" of both spawn paths: a bomb at the
\* limit becomes a saw.
BombOrSaw(kind, bc) ==
    IF kind = "bomb" /\ bc >= max_bombs_per_game THEN "saw" ELSE kind

\* The position of an orb in main's list orbs.
OrbIndex == "A" :> 1 @@ "B" :> 2 @@ "C" :> 3

\* critical_orbs[0]
FirstCritical ==
    CHOOSE o \in critical_orbs : \A q \in critical_orbs : OrbIndex[o] <= OrbIndex[q]

\* The last n entries of a history.
LastOf(h, n) == IF Len(h) <= n THEN h ELSE SubSeq(h, Len(h) - n + 1, Len(h))

\* The histories track_health_change can leave after the changes of sign
\* signs[o] for the orbs of DOMAIN signs: each change is appended, and the
\* entries older than 30 s of wall-clock time (time.time()) are dropped, which
\* is any prefix of an orb's entries before the new one.  Three entries per orb
\* are kept: should_avoid_repetitive_pattern reads the last three.
track_health_change(signs) ==
    {h \in [Orbs -> UNION {[1..n -> {-1, 1}] : n \in 0..3}] :
        \A o \in Orbs :
            LET old == health_change_history[o] IN
            IF o \in DOMAIN signs
            THEN \E k \in 0..Len(old) :
                    h[o] = LastOf(Append(LastOf(old, k), signs[o]), 3)
            ELSE \E k \in 0..Len(old) : h[o] = LastOf(old, k)}

\* The histories after the callbacks of the orbs of N, all with one sign.
Tracked(N, sign) ==
    IF N = {} THEN {health_change_history}
    ELSE track_health_change([o \in N |-> sign])

\* The test should_avoid_repetitive_pattern applies to the entries
\* recent_changes of one orb: three or more of them, the last three alternating,
\* and the proposed change continuing the alternation.
is_repetitive(recent_changes, proposed_change) ==
    /\ Len(recent_changes) >= 3
    /\ LET signs == LastOf(recent_changes, 3) IN
       /\ signs \in {<<1, -1, 1>>, <<-1, 1, -1>>}
       /\ \/ signs[3] = 1 /\ proposed_change < 0
          \/ signs[3] = -1 /\ proposed_change > 0

\* should_avoid_repetitive_pattern(orb_name, proposed_change, current_time).
\* The entries' times are wall-clock times and current_time is a game time, so
\* "h['time'] > current_time - 10.0" holds for every entry.
should_avoid_repetitive_pattern(o, proposed_change) ==
    is_repetitive(health_change_history[o], proposed_change)

\* The heart generate_immediate_spawns plans for critical_orbs[0], unless the
\* repetition guard objects.
GuardedHeart ==
    IF critical_orbs # {} /\ ~should_avoid_repetitive_pattern(FirstCritical, 1)
    THEN <<"heart">> ELSE <<>>

\* generate_immediate_spawns: current_time is self.last_analysis_time, which
\* main assigns after analyze_battle_state returns.
generate_immediate_spawns(tp) ==
    LET current_time == last_analysis_time
        heart == GuardedHeart
        first == IF current_time < Sec(min_game_duration) THEN heart
                 ELSE (IF Cardinality(Living) = 2 /\ (\E o \in Living : hp[o] <= 1) /\ tp > 5
                       THEN <<"saw">> ELSE <<>>)
                      \o (IF tp < 7 THEN heart ELSE <<>>)
        forced == IF current_time > Sec(max_game_duration - 8)
                  THEN <<"saw", "saw">> ELSE <<>>
    IN  first \o forced

\* The strategies analyze_battle_state can return at the current time: the
\* time pressure is drawn.
Analyses ==
    {[immediate_spawns |-> generate_immediate_spawns(tp),
      weights_override |-> weights_override(tp, now)] : tp \in Pressures}

\* "Process immediate spawns" with the bomb counter: st is
\* [pickups, bomb_count, bombs_made].
RECURSIVE DirectorImmediate(_, _)
DirectorImmediate(st, plan) ==
    IF plan = <<>> THEN st
    ELSE IF UnderCap(Len(st.pickups))
    THEN LET kind == BombOrSaw(Head(plan), st.bomb_count)
             made == IF kind = "bomb" THEN 1 ELSE 0
         IN  DirectorImmediate(
                [pickups |-> Append(st.pickups, [id |-> 0, kind |-> kind, alive |-> TRUE]),
                 bomb_count |-> IF kind = "bomb" THEN track_bomb_spawn(st.bomb_count)
                                ELSE st.bomb_count,
                 bombs_made |-> st.bombs_made + made],
                Tail(plan))
    ELSE DirectorImmediate(st, Tail(plan))

\* A timestamp whose cooldown has elapsed at t reads like an absent one in
\* every later test, and is kept as NoTime.
Elapsed(stamps, t) ==
    [p \in Pairs |-> IF t >= stamps[p] + Cooldown(p[2]) THEN NoTime ELSE stamps[p]]

\* The head of a frame and its physics: nothing with an effect happens, or
\* update_arena_size removes pickups the shrunken arena leaves outside, or one
\* collision has an effect.  A saw held by a living orb a hits orb o
\* (register_saw_hits.begin: the hit, then the victory sequence on a killing
\* hit, else the saw is destroyed); or orb o collects the pickup
\* (register_pickup_handler.begin).
FramePhysics(seconds, max_collected) ==
    /\ pc = "loop"
    /\ frame_i < Sec(seconds)
    /\ pc' = "update"
    /\ \/ UNCHANGED <<hp, is_shielded, has_saw, pickups, victory_triggered,
                      victory_orb, collected, health_change_history>>
       \/ /\ \E Outside \in SUBSET AlivePositions(pickups) :
                /\ Outside # {}
                /\ pickups' = [i \in DOMAIN pickups |->
                                  IF i \in Outside THEN PickupDestroyed(pickups[i])
                                  ELSE pickups[i]]
          /\ UNCHANGED <<hp, is_shielded, has_saw, victory_triggered,
                         victory_orb, collected, health_change_history>>
       \/ \E o \in Living :
               \/ \E a \in Living \ {o} :
                    /\ has_saw[a] # NoSaw
                    /\ UNCHANGED collected
                    /\ LET th == take_hit(o, SAW_DAMAGE) IN
                       /\ hp' = [hp EXCEPT ![o] = th.hp]
                       /\ is_shielded' = [is_shielded EXCEPT ![o] = th.is_shielded]
                       /\ health_change_history' \in
                             Tracked(IF th.notified THEN {o} ELSE {}, -1)
                       /\ IF SawHitTriggersVictory(o, is_shielded[o], SAW_DAMAGE)
                          THEN /\ victory_triggered' = TRUE
                               /\ victory_orb' = a
                               /\ pickups' = <<>>
                               /\ has_saw' = [q \in Orbs |-> NoSaw]
                          ELSE /\ has_saw' = [has_saw EXCEPT ![a] = NoSaw]
                               /\ UNCHANGED <<pickups, victory_triggered, victory_orb>>
               \/ \E i \in DOMAIN pickups :
                    /\ PickupUsable(pickups[i])
                    /\ collected < max_collected
                    /\ collected' = collected + 1
                    /\ pickups' = [pickups EXCEPT ![i] = PickupDestroyed(pickups[i])]
                    /\ UNCHANGED <<victory_triggered, victory_orb>>
                    /\ CASE pickups[i].kind = "saw" ->
                              /\ has_saw' = IF CanEquipSaw(o)
                                            THEN [has_saw EXCEPT ![o] = 1] ELSE has_saw
                              /\ UNCHANGED <<hp, is_shielded, health_change_history>>
                         [] pickups[i].kind = "heart" ->
                              /\ hp' = [hp EXCEPT ![o] = heal(o, HEAL_AMOUNT).hp]
                              /\ health_change_history' \in
                                    Tracked(IF heal(o, HEAL_AMOUNT).notified
                                            THEN {o} ELSE {}, 1)
                              /\ UNCHANGED <<is_shielded, has_saw>>
                         [] pickups[i].kind = "shield" ->
                              /\ is_shielded' = [is_shielded EXCEPT ![o] = TRUE]
                              /\ UNCHANGED <<hp, has_saw, health_change_history>>
                         [] pickups[i].kind = "bomb" ->
                              \E InRadius \in SUBSET Orbs :
                                 /\ o \in InRadius
                                 /\ LET T == BombTargets(InRadius) IN
                                    /\ hp' = [r \in Orbs |->
                                           IF r \in T THEN take_hit(r, DEFAULT_BOMB_DAMAGE).hp
                                           ELSE hp[r]]
                                    /\ is_shielded' = [r \in Orbs |->
                                           IF r \in T
                                           THEN take_hit(r, DEFAULT_BOMB_DAMAGE).is_shielded
                                           ELSE is_shielded[r]]
                                    /\ health_change_history' \in
                                          Tracked({r \in T :
                                              take_hit(r, DEFAULT_BOMB_DAMAGE).notified}, -1)
                                 /\ UNCHANGED has_saw
    /\ UNCHANGED <<script, rate, max_hp, active_saws, saws_made, spawned, bomb_count, winner,
                   win_frame, frame_i, substep, log, geom>>
    /\ UNCHANGED <<item_spawn_cooldowns, last_unified, last_analysis_time,
                   ai_strategy, time_pressure, bombs_made, spawn_log, assist_log>>

DirectorPhysics == FramePhysics(DirectorSeconds, MaxCollected)

\* The rest of the frame body: pickup cleanup, the director's analysis with its
\* immediate spawns, the unified spawn (emergency assistance, else the weighted
\* draw), the winner check and the victory check that breaks out of the loop.
DirectorUpdate ==
    /\ pc = "update"
    /\ \E analysis \in Analyses :
       LET t    == now
           due  == t >= last_analysis_time + Sec(analysis_interval)
           plan == IF due THEN analysis.immediate_spawns ELSE <<>>
           strategy == IF due THEN <<analysis.weights_override>> ELSE ai_strategy
           st1  == DirectorImmediate(
                      [pickups |-> PickupsAfterCleanup(pickups),
                       bomb_count |-> bomb_count, bombs_made |-> bombs_made], plan)
           attempt == 2 * t >= 2 * last_unified + 3 * GAME_FPS
       IN
       /\ last_analysis_time' = IF due THEN t ELSE last_analysis_time
       /\ last_unified' = IF attempt THEN t ELSE last_unified
       /\ IF attempt /\ UnderCap(Len(st1.pickups))
          THEN \E default_target_orb \in (IF Living # {} THEN Living ELSE Orbs) :
               IF EmergencyChoices(t) # {}
               THEN \E e \in EmergencyChoices(t) :
                    /\ pickups' = Append(st1.pickups,
                                         [id |-> 0, kind |-> e.kind, alive |-> TRUE])
                    /\ bomb_count' = st1.bomb_count
                    /\ bombs_made' = st1.bombs_made
                    /\ ai_strategy' = strategy
                    /\ item_spawn_cooldowns' =
                          Elapsed([item_spawn_cooldowns EXCEPT ![<<e.target, e.kind>>] = t], t)
                    /\ assist_log' =
                          Elapsed([assist_log EXCEPT ![<<e.target, e.kind>>] = t], t)
                    /\ spawn_log' = [time |-> t, path |-> "emergency",
                                     kind |-> e.kind, target |-> e.target]
               ELSE LET w == weights_to_use(strategy, default_target_orb, st1.bomb_count) IN
                    \E chosen \in {k \in Kinds : w[k] > 0} :
                    LET kind == BombOrSaw(chosen, st1.bomb_count)
                        made == IF kind = "bomb" /\ hp[default_target_orb] > 0
                                THEN 1 ELSE 0
                    IN
                    /\ pickups' = IF hp[default_target_orb] > 0
                                  THEN Append(st1.pickups,
                                              [id |-> 0, kind |-> kind, alive |-> TRUE])
                                  ELSE st1.pickups
                    /\ bomb_count' = IF made = 1 THEN track_bomb_spawn(st1.bomb_count)
                                      ELSE st1.bomb_count
                    /\ bombs_made' = st1.bombs_made + made
                    /\ ai_strategy' = IF strategy # <<>> THEN <<w>> ELSE strategy
                    /\ item_spawn_cooldowns' = Elapsed(item_spawn_cooldowns, t)
                    /\ assist_log' = Elapsed(assist_log, t)
                    /\ spawn_log' = [time |-> t,
                                     path |-> IF hp[default_target_orb] > 0
                                              THEN "weighted" ELSE "none",
                                     kind |-> kind, target |-> default_target_orb]
          ELSE /\ pickups' = st1.pickups
               /\ bomb_count' = st1.bomb_count
               /\ bombs_made' = st1.bombs_made
               /\ ai_strategy' = strategy
               /\ item_spawn_cooldowns' = Elapsed(item_spawn_cooldowns, t)
               /\ assist_log' = Elapsed(assist_log, t)
               /\ spawn_log' = IF attempt
                               THEN [time |-> t, path |-> "capped",
                                     kind |-> None, target |-> None]
                               ELSE NoSpawn
    /\ LET w1 == WinnerBySurvival
           w2 == WinnerByVictory(w1)
           wf == IF w2 # winner THEN frame_i ELSE win_frame
       IN
       /\ winner' = w2
       /\ win_frame' = wf
       /\ IF w2 # None /\ ~(frame_i - wf < VictoryFrames)
          THEN pc' = "done" /\ frame_i' = frame_i
          ELSE pc' = "loop" /\ frame_i' = frame_i + 1
    /\ UNCHANGED <<script, rate, max_hp, hp, is_shielded, has_saw, active_saws, saws_made,
                   spawned, victory_triggered, victory_orb, substep, log, geom,
                   time_pressure, health_change_history, collected>>

\* The frame loop runs out of frames.
FramesExhausted(seconds) ==
    /\ pc = "loop"
    /\ frame_i >= Sec(seconds)
    /\ pc' = "done"
    /\ UNCHANGED <<script, rate, max_hp, hp, is_shielded, has_saw, active_saws, saws_made,
                   pickups, spawned, bomb_count, victory_triggered, victory_orb,
                   winner, win_frame, frame_i, substep, log, geom, director>>

DirectorExhausted == FramesExhausted(DirectorSeconds)

DirectorNext ==
    \/ DirectorPhysics
    \/ DirectorUpdate
    \/ DirectorExhausted

\* The configurations of cfg["orbs"] of this specification: every orb starts
\* above the low-health threshold.
DirectorConfigs == {m \in OrbConfigs : \A o \in Orbs : m[o] > LOW_HEALTH_THRESHOLD}

DirectorInit == Init /\ max_hp \in DirectorConfigs

DirectorSpec == DirectorInit /\ [][DirectorNext]_vars

\* --------------------------------------------------------------- GuardSpec
\* The first seconds of a match with more pickups collected: the frames of
\* DirectorSpec over a shorter duration.
GuardPhysics == FramePhysics(GuardSeconds, GuardCollected)

GuardExhausted == FramesExhausted(GuardSeconds)

GuardNext ==
    \/ GuardPhysics
    \/ DirectorUpdate
    \/ GuardExhausted

GuardSpec == DirectorInit /\ [][GuardNext]_vars

\* =================================================================== claims
AliveIn(seq, id) == \E i \in DOMAIN seq : seq[i].id = id /\ seq[i].alive
DeadIn(seq, id) == \E i \in DOMAIN seq : seq[i].id = id /\ ~seq[i].alive
KindIn(seq, id, k) == \E i \in DOMAIN seq : seq[i].id = id /\ seq[i].kind = k
OwnerIn(seq, id, o) == \E i \in DOMAIN seq : seq[i].id = id /\ seq[i].owner = o

\* The step is a run of the orb-pickup handler / of the orb-saw handler; log'
\* names the orb and the object of the contact.
PickupContactStep == pc = "physics" /\ log'.handler = "pickup"
SawContactStep == pc = "physics" /\ log'.handler = "saw"

\* C1: after any sequence of saw hits, bomb explosions and heart pickups every
\* agent's HP lies between 0 and its max_hp.
C1_HpInRange == \A o \in Orbs : 0 <= hp[o] /\ hp[o] <= max_hp[o]

\* A bomb has just taken an orb with fewer than DEFAULT_BOMB_DAMAGE hit points
\* to 0 (take_hit floored).
C1_Witness ==
    /\ log.handler = "pickup" /\ log.branch = "bomb"
    /\ \E o \in log.notified : hp[o] = 0 /\ max_hp[o] < DEFAULT_BOMB_DAMAGE

\* C2: once an agent's HP has reached 0 it remains 0 for the rest of the match.
C2_DeadStaysDead == [][\A o \in Orbs : hp[o] = 0 => hp'[o] = 0]_vars

\* C3: the contact of an agent with HP = 0 with a pickup does not heal it,
\* equip it with a saw, shield it, or change the HP or shield of any agent.
C3_DeadAgentNoPickupEffect ==
    [][(PickupContactStep /\ hp[log'.orb] = 0)
        => (hp' = hp /\ is_shielded' = is_shielded /\ has_saw' = has_saw)]_vars

\* C4: a winner is declared only in a state where exactly one agent has
\* HP > 0, and the winner is that agent.
C4_WinnerIsSoleSurvivor ==
    [][(winner = None /\ winner' # None)
        => {o \in Orbs : hp'[o] > 0} = {winner'}]_vars

\* C5: once a winner is declared no agent's HP, shield or weapon changes, no
\* pickup is created and no agent's contact consumes an alive pickup.
C5_NoEffectsAfterEnd ==
    [][winner # None
        => (/\ hp' = hp /\ is_shielded' = is_shielded /\ has_saw' = has_saw
            /\ spawned' = spawned
            /\ ~(PickupContactStep /\ AliveIn(pickups, log'.target)))]_vars

\* C6: a pickup whose alive flag is false never becomes alive again, and an
\* agent's contact with a pickup whose alive flag is already false changes no
\* agent's HP, shield or weapon and no saw.
C6_PickupConsumedOnce ==
    [][/\ \A i \in DOMAIN pickups :
            ~pickups[i].alive => ~AliveIn(pickups', pickups[i].id)
       /\ (PickupContactStep /\ DeadIn(pickups, log'.target))
            => (hp' = hp /\ is_shielded' = is_shielded /\ has_saw' = has_saw
                /\ active_saws' = active_saws /\ pickups' = pickups)]_vars

\* A second contact reached a pickup that an earlier contact of the same frame
\* had consumed.
C6_Witness ==
    /\ log.handler = "pickup" /\ log.branch = "dead"
    /\ DeadIn(pickups, log.target)

\* C7: the contact of an agent with an alive pickup always consumes it, and
\* the frame's cleanup removes it from the pickups list; a heart touched by a
\* full-HP agent changes no HP and invokes no health-change callback; a saw
\* token touched by an agent holding a saw changes no weapon.
C7_FirstContactConsumes ==
    [][/\ (PickupContactStep /\ AliveIn(pickups, log'.target))
            => /\ ~AliveIn(pickups', log'.target)
               /\ (KindIn(pickups, log'.target, "heart")
                   /\ hp[log'.orb] >= max_hp[log'.orb])
                    => (hp' = hp /\ log'.notified = {})
               /\ (KindIn(pickups, log'.target, "saw") /\ has_saw[log'.orb] # NoSaw)
                    => (has_saw' = has_saw /\ active_saws' = active_saws)
       /\ pc' = "loop" => \A i \in DOMAIN pickups' : pickups'[i].alive]_vars

\* A heart has just been consumed by an agent at full HP.
C7_Witness ==
    /\ log.handler = "pickup" /\ log.branch = "heart"
    /\ log.notified = {}
    /\ hp[log.orb] = max_hp[log.orb]
    /\ DeadIn(pickups, log.target)

\* C8: a saw hit on a shielded agent clears the shield, leaves every HP
\* unchanged and destroys the saw; no agent loses HP in a step in which it is
\* shielded; a shield is only set by a shield pickup; and a saw hit on a
\* living agent whose shield is clear reduces its HP.
C8_ShieldAbsorbsOneHit ==
    [][/\ \A o \in Orbs :
            /\ is_shielded[o] => hp'[o] >= hp[o]
            /\ (~is_shielded[o] /\ is_shielded'[o])
                => (PickupContactStep /\ log'.orb = o /\ log'.branch = "shield")
       /\ (SawContactStep /\ AliveIn(active_saws, log'.target)
           /\ ~OwnerIn(active_saws, log'.target, log'.orb))
            => IF is_shielded[log'.orb]
               THEN /\ ~is_shielded'[log'.orb]
                    /\ hp' = hp
                    /\ ~AliveIn(active_saws', log'.target)
               ELSE hp[log'.orb] > 0 => hp'[log'.orb] < hp[log'.orb]]_vars

\* A saw has just hit a shielded agent.
C8_Witness ==
    /\ log.handler = "saw" /\ log.branch = "shield"
    /\ ~is_shielded[log.orb]
    /\ hp[log.orb] > 0

\* C9: an alive saw touching a living, unshielded agent other than its owner
\* takes SAW_DAMAGE from that agent's HP (floored at 0) and is destroyed; a
\* destroyed saw changes no HP or shield; a saw touching its owner changes no
\* HP or shield and stays alive.
C9_SawHitsOnce ==
    [][SawContactStep =>
        /\ (AliveIn(active_saws, log'.target)
            /\ ~OwnerIn(active_saws, log'.target, log'.orb)
            /\ hp[log'.orb] > 0 /\ ~is_shielded[log'.orb])
             => /\ hp' = [hp EXCEPT ![log'.orb] = Max(0, hp[log'.orb] - SAW_DAMAGE)]
                /\ ~AliveIn(active_saws', log'.target)
        /\ ~AliveIn(active_saws, log'.target)
             => (hp' = hp /\ is_shielded' = is_shielded)
        /\ OwnerIn(active_saws, log'.target, log'.orb)
             => (hp' = hp /\ is_shielded' = is_shielded /\ has_saw' = has_saw
                 /\ active_saws' = active_saws)]_vars

\* A saw has just taken a hit point from an agent that is not its owner and is
\* no longer alive, while its former owner holds no saw.
C9_Witness ==
    /\ log.handler = "saw" /\ log.branch = "hit"
    /\ log.notified = {log.orb}
    /\ log.owner # log.orb
    /\ DeadIn(active_saws, log.target)
    /\ has_saw[log.owner] = NoSaw

\* C10: no agent loses HP or shield to a saw whose owner's HP is 0.
C10_DeadOwnerSawHarmless ==
    [][(SawContactStep /\ log'.owner # None /\ hp[log'.owner] = 0)
        => (hp' = hp /\ is_shielded' = is_shielded)]_vars

\* C11: a saw that reaches the damage logic (alive, touching an agent other
\* than its owner) on an agent whose HP is already 0 changes no agent's HP or
\* shield and does not trigger the victory sequence.
C11_DeadTargetNoOp ==
    [][(SawContactStep /\ AliveIn(active_saws, log'.target)
        /\ ~OwnerIn(active_saws, log'.target, log'.orb) /\ hp[log'.orb] = 0)
        => (/\ hp' = hp /\ is_shielded' = is_shielded
            /\ victory_triggered' = victory_triggered
            /\ victory_orb' = victory_orb)]_vars

\* The alive saws of active_saws owned by orb o.
SawsOf(saws, o) == {i \in DOMAIN saws : saws[i].alive /\ saws[i].owner = o}

\* C12: every agent owns at most one alive saw, the one has_saw refers to, and
\* a saw token touched by an agent that holds a saw constructs no Saw.
C12_OneWeapon ==
    [][/\ \A o \in Orbs :
            /\ Cardinality(SawsOf(active_saws', o)) <= 1
            /\ \A i \in SawsOf(active_saws', o) : has_saw'[o] = active_saws'[i].id
       /\ (PickupContactStep /\ AliveIn(pickups, log'.target)
           /\ KindIn(pickups, log'.target, "saw") /\ has_saw[log'.orb] # NoSaw)
            => (saws_made' = saws_made /\ active_saws' = active_saws)]_vars

\* An agent that holds an alive saw has just consumed a saw token.
C12_Witness ==
    /\ log.handler = "pickup" /\ log.branch = "saw_has"
    /\ Cardinality(SawsOf(active_saws, log.orb)) = 1
    /\ DeadIn(pickups, log.target)

\* C16: the pickups list never holds more than the cap, whatever the immediate
\* spawns and the unified spawn of a frame add to it.
C16_PickupCap == Len(pickups) <= MaxPickups

\* A frame has ended with the list at the cap, every pickup of it alive.
C16_Witness ==
    /\ pc = "loop" /\ frame_i > 0
    /\ Len(pickups) = MaxPickups
    /\ \A i \in DOMAIN pickups : pickups[i].alive

\* C13: when a bomb pickup at position P is consumed, every living unshielded
\* agent within DEFAULT_BOMB_RADIUS of P loses DEFAULT_BOMB_DAMAGE (floored at
\* 0) and receives an impulse pointing away from P, of 1.5 times the magnitude
\* for the triggering agent, and every agent farther than DEFAULT_BOMB_RADIUS
\* from P keeps its HP and shield and receives no impulse.
C13_BlastAroundPickup ==
    [][(PickupContactStep /\ AliveIn(pickups, log'.target)
        /\ KindIn(pickups, log'.target, "bomb"))
        => \A i \in DOMAIN pickups : pickups[i].id = log'.target =>
            \A r \in Orbs :
              /\ (hp[r] > 0 /\ ~is_shielded[r]
                  /\ Abs(pos[r] - pickups[i].at) <= DEFAULT_BOMB_RADIUS)
                   => /\ hp'[r] = Max(0, hp[r] - DEFAULT_BOMB_DAMAGE)
                      /\ impulse'[r].mult = (IF r = log'.orb THEN 15 ELSE 10)
                      /\ pos[r] > pickups[i].at => impulse'[r].dir = 1
                      /\ pos[r] < pickups[i].at => impulse'[r].dir = -1
              /\ Abs(pos[r] - pickups[i].at) > DEFAULT_BOMB_RADIUS
                   => /\ hp'[r] = hp[r] /\ is_shielded'[r] = is_shielded[r]
                      /\ impulse'[r].mult = 0]_vars

\* C17: the weights an analysis computes under extension pressure (below the
\* dead-band) have larger heart and shield weights and smaller (or equally
\* zero) saw and bomb weights than the weights computed for the same time,
\* agents and bomb counter with no pressure, and under acceleration pressure
\* the other way round.
C17_PressureMovesWeights ==
    (pc = "done" /\ ai_strategy # <<>>) =>
        LET calm == weights_override(0, now)
            w    == ai_strategy[1]
        IN
        /\ time_pressure < -1 =>
              /\ w.heart > calm.heart /\ w.shield > calm.shield
              /\ w.saw < calm.saw /\ w.bomb <= calm.bomb
        /\ time_pressure > 1 =>
              /\ w.saw > calm.saw /\ w.bomb >= calm.bomb
              /\ w.heart < calm.heart /\ w.shield < calm.shield

\* C14: over a whole match the number of bomb pickups spawned, by the weighted
\* draw and by the director's immediate spawns together, never exceeds
\* max_bombs_per_game.
C14_BombCap == bombs_made <= max_bombs_per_game

\* The cap is reached and a later weighted draw spawns another kind.
C14_Witness ==
    /\ bombs_made = max_bombs_per_game
    /\ spawn_log.path = "weighted"
    /\ spawn_log.kind # "bomb"

\* C15: no bomb pickup is spawned at a game time earlier than
\* min_game_duration (61 s), on any spawn path, from the start of the match.
C15_NoBombBeforeMinimum ==
    [][(bombs_made' > bombs_made
        \/ \E i \in DOMAIN pickups' : pickups'[i].kind = "bomb" /\ i \notin DOMAIN pickups)
       => now >= Sec(min_game_duration)]_vars

\* A bomb has just been spawned by the weighted draw.
C15_Witness ==
    /\ spawn_log.path = "weighted"
    /\ spawn_log.kind = "bomb"
    /\ spawn_log.time >= Sec(min_game_duration)
    /\ \E i \in DOMAIN pickups : pickups[i].kind = "bomb"

\* The living orbs at or below the low-health threshold for which some kind of
\* the assistance order is eligible at time t.
LowEligible(t) ==
    {o \in Living : hp[o] <= LOW_HEALTH_THRESHOLD /\ first_eligible(o, t) # None}

\* C18: at every spawn attempt where a living orb at or below the low-health
\* threshold has an eligible kind, the pickup spawned is the first eligible kind
\* (heart, saw if the orb holds none, shield if the orb has none) of such an
\* orb; the weighted draw is used only when there is no such orb.
C18_AssistFirst ==
    [][(pc = "update" /\ spawn_log'.path \in {"emergency", "weighted"}
        /\ LowEligible(now) # {})
       => /\ spawn_log'.path = "emergency"
          /\ spawn_log'.target \in LowEligible(now)
          /\ spawn_log'.kind = first_eligible(spawn_log'.target, now)]_vars

\* C19: two emergency spawns for the same (orb, kind) are never less than the
\* cooldown apart: the pair chosen has no emergency spawn within the cooldown
\* before the current time, and the spawn records the current time as the
\* pair's cooldown timestamp.
C19_AssistCooldown ==
    [][(pc = "update" /\ spawn_log'.path = "emergency")
       => LET p == <<spawn_log'.target, spawn_log'.kind>> IN
          /\ assist_log[p] = NoTime \/ now >= assist_log[p] + Cooldown(p[2])
          /\ item_spawn_cooldowns'[p] = now
          /\ assist_log'[p] = now]_vars

\* An emergency heart is spawned for an orb whose emergency saw is still within
\* its cooldown: the saw followed an earlier heart for the same orb.
C19_Witness ==
    /\ spawn_log.path = "emergency"
    /\ spawn_log.kind = "heart"
    /\ assist_log[<<spawn_log.target, "saw">>] # NoTime
    /\ assist_log[<<spawn_log.target, "heart">>] = spawn_log.time

\* The three most recent health changes of orb o are damage, heal, damage.
Alternates(o) ==
    /\ Len(health_change_history[o]) >= 3
    /\ LastOf(health_change_history[o], 3) = <<-1, 1, -1>>

\* C20: while the latest history of an orb is the alternation damage, heal,
\* damage, no path spawns a heart for it (immediate, emergency or weighted
\* draw) and no heal is applied to it.
C20_GuardOnEveryPath ==
    [][\A o \in Orbs : Alternates(o) =>
          /\ ~(spawn_log'.path \in {"emergency", "weighted"}
               /\ spawn_log'.kind = "heart" /\ spawn_log'.target = o
               /\ spawn_log'.time = now)
          /\ ~(hp'[o] > hp[o])]_vars

\* A living orb holding a saw can hit the living, unshielded orb o in the next
\* physics step.
SawHitPossible(o) ==
    /\ pc = "loop" /\ winner = None /\ o \in Living /\ ~is_shielded[o]
    /\ \E a \in Living \ {o} : has_saw[a] # NoSaw

\* C21: two runs with the same configuration and the same random-number stream
\* behave the same whatever their wall-clock time and speed: from one game
\* state, after the same saw hit on an orb, every history the wall clock can
\* leave gives the director the same answer on whether a heart for that orb is
\* withheld, so that the pickups spawned, and with them the HP of every later
\* tick, are the same.
C21_WallClockFree ==
    \A o \in Orbs : SawHitPossible(o) =>
        \A h1, h2 \in Tracked({o}, -1) :
            is_repetitive(h1[o], 1) = is_repetitive(h2[o], 1)

\* C22: no winner is declared at a game time before min_game_duration (61 s).
C22_NoWinnerBeforeMinimum ==
    winner # None => now >= Sec(min_game_duration)

\* ---------------------------------------------------------------------------
\* Configurations as main loads them: orb_config_data.get("max_hp", 6) is
\* passed to Orb unchecked, so a value of 0 is loaded like any other.
\* ---------------------------------------------------------------------------
LoadedConfigs ==
    {m \in [Orbs -> 0..MaxHP] : m["A"] <= m["B"] /\ m["B"] <= m["C"]}

ConfigInit ==
    /\ max_hp \in LoadedConfigs
    /\ Constructed

ConfigSpec == ConfigInit /\ [][GuardNext]_vars

\* C23: a match whose configuration is invalid (here an orb with a max HP that
\* is not positive) is rejected at construction: no tick of it ever runs.
C23_InvalidConfigRejected ==
    (\E o \in Orbs : max_hp[o] <= 0) => (frame_i = 0 /\ pc = "loop")

\* ---------------------------------------------------------------------------
\* The frame loop under the scheduling of main: one thread that executes the
\* loop body statement after statement, so a step that is possible is taken,
\* and each space.step(sub_dt) returns after the finitely many begin callbacks
\* of the contacts it finds.
\* ---------------------------------------------------------------------------
LiveSpec == Spec /\ WF_vars(Next) /\ WF_vars(StepDone)

\* C24: every match terminates, and the frame loop never runs more than
\* frames_to_generate frames, whether or not a winner is declared.
C24_Terminates ==
    /\ [](frame_i <= frames_to_generate)
    /\ <>(pc = "done")

\* The loop has run all its frames and ended with no winner.
C24_Witness ==
    /\ pc = "done"
    /\ winner = None
    /\ frame_i = frames_to_generate

\* ---------------------------------------------------------------------------
\* The frame loop with the orb-orb and orb-wall collision handlers.
\* ---------------------------------------------------------------------------
\* An orb-orb handler that applies its dmg parameter to the orbs in contact.
orb_collision_hp_damaged(o) == Max(0, hp[o] - 1)

\* register_orb_collisions: begin plays a bounce sound and post_solve emits
\* particles ("Orb-orb collision bounce only, no damage etc."); the dmg
\* parameter is not used, and the HP of an orb in contact stays what it is.
orb_collision_hp(o) == hp[o]

\* begin and post_solve of the orb-orb handler for the orbs a and b.
OrbBegin(a, b) ==
    /\ pc = "physics"
    /\ a # b
    /\ hp' = [hp EXCEPT ![a] = orb_collision_hp(a), ![b] = orb_collision_hp(b)]
    /\ log' = [handler |-> "orb", orb |-> a, target |-> 0, owner |-> None,
               branch |-> "bounce", notified |-> {}]
    /\ UNCHANGED <<max_hp, is_shielded, has_saw, active_saws, saws_made, pickups,
                   spawned, bomb_count, victory_triggered, victory_orb, winner,
                   win_frame, frame_i, substep, pc>>
    /\ UNCHANGED <<geom, director, script, rate>>

\* begin_orb_wall: camera shake, particles and a bounce sound; for an orb that
\* holds a saw a post-step callback turns the velocity by a random angle and
\* keeps its magnitude.  Velocities are not represented here.
WallBegin(o) ==
    /\ pc = "physics"
    /\ log' = [handler |-> "wall", orb |-> o, target |-> 0, owner |-> None,
               branch |-> IF has_saw[o] # NoSaw THEN "randomized" ELSE "bounce",
               notified |-> {}]
    /\ UNCHANGED <<max_hp, hp, is_shielded, has_saw, active_saws, saws_made,
                   pickups, spawned, bomb_count, victory_triggered, victory_orb,
                   winner, win_frame, frame_i, substep, pc>>
    /\ UNCHANGED <<geom, director, script, rate>>

CollisionNext ==
    \/ Next
    \/ \E a, b \in Orbs : OrbBegin(a, b)
    \/ \E o \in Orbs : WallBegin(o)

CollisionSpec == Init /\ [][CollisionNext]_vars

\* C25: an orb-orb or orb-wall collision changes no orb's HP, shield or saw,
\* and as long as no pickup has been spawned in the match every orb has its
\* max HP and there is no winner.
C25_CollisionsHarmless ==
    /\ [][log'.handler \in {"orb", "wall"}
            => UNCHANGED <<hp, is_shielded, has_saw, active_saws, winner>>]_vars
    /\ [](spawned = 0 => (hp = max_hp /\ winner = None))

\* The loop has ended at the frame limit of a match in which no pickup was
\* spawned: every orb has its max HP and there is no winner.
C25_Witness ==
    /\ pc = "done" /\ frame_i = frames_to_generate
    /\ spawned = 0 /\ hp = max_hp /\ winner = None

\* ---------------------------------------------------------------------------
\* The velocity cap of Orb.update in the frame loop.  A frame is its physics
\* (one event of the sub-steps that changes speeds) followed by "for orb in
\* orbs: orb.update(dt)", the saw updates and the winner check.
\* ---------------------------------------------------------------------------
SpeedSeconds == 2
MaxSawsMade == 2
MAX_ORB_VELOCITY == 500
DEFAULT_BOMB_IMPULSE == 15000

\* Speeds a body can have after a sub-step: at rest, below the cap, between
\* the two caps, and the speed an impulse of DEFAULT_BOMB_IMPULSE gives a body
\* of mass 1 at rest.
SpeedLevels == {0, 400, 900, DEFAULT_BOMB_IMPULSE}

\* "boost_factor = 1.8; orb.body.velocity = current_vel * boost_factor"
boosted(v) == (v * 18) \div 10

\* The cap of Orb.update applied whether or not the orb holds a saw.
max_velocity_doubled(o) == MAX_ORB_VELOCITY * 2

\* Orb.update: "max_velocity = MAX_ORB_VELOCITY; if self.has_saw:
\* max_velocity = MAX_ORB_VELOCITY * 2"
max_velocity(o) ==
    IF has_saw[o] # NoSaw THEN MAX_ORB_VELOCITY * 2 ELSE MAX_ORB_VELOCITY

\* Orb.update: "if speed > max_velocity: velocity = normalized * max_velocity"
capped(o) == IF speed[o] > max_velocity(o) THEN max_velocity(o) ELSE speed[o]

\* The sub-steps of a frame: a collision or a wall bounce changes the speed of
\* an orb, or an orb takes a saw pickup and is boosted, or an orb touches a
\* bomb and the orbs of the blast take the damage and the impulse.
SpeedPhysics ==
    /\ pc = "loop"
    /\ frame_i < Sec(SpeedSeconds)
    /\ pc' = "update"
    /\ \/ /\ \E o \in Orbs, v \in SpeedLevels : speed' = [speed EXCEPT ![o] = v]
          /\ UNCHANGED <<hp, is_shielded, has_saw, active_saws, saws_made>>
       \/ \E o \in Orbs :
            /\ CanEquipSaw(o)
            /\ saws_made < MaxSawsMade
            /\ saws_made' = saws_made + 1
            /\ has_saw' = [has_saw EXCEPT ![o] = saws_made + 1]
            /\ active_saws' = Append(active_saws,
                    [id |-> saws_made + 1, owner |-> o, alive |-> TRUE])
            /\ speed' = [speed EXCEPT ![o] = boosted(speed[o])]
            /\ UNCHANGED <<hp, is_shielded>>
       \/ \E o \in Orbs, InRadius \in SUBSET Orbs, v \in SpeedLevels :
            /\ o \in InRadius
            /\ LET T == BombTargets(InRadius) IN
               /\ hp' = [r \in Orbs |->
                      IF r \in T THEN take_hit(r, DEFAULT_BOMB_DAMAGE).hp
                      ELSE hp[r]]
               /\ is_shielded' = [r \in Orbs |->
                      IF r \in T THEN take_hit(r, DEFAULT_BOMB_DAMAGE).is_shielded
                      ELSE is_shielded[r]]
               /\ speed' = [r \in Orbs |-> IF r \in T THEN v ELSE speed[r]]
            /\ UNCHANGED <<has_saw, active_saws, saws_made>>
    /\ UNCHANGED <<script, rate, max_hp, pickups, spawned, bomb_count, victory_triggered,
                   victory_orb, winner, win_frame, frame_i, substep, log,
                   pos, impulse, vel, arena, pred, director>>

\* The frame body after the sub-steps: every orb's update caps its speed,
\* then the saw updates destroy the saws whose owner is gone and clear the
\* owner's has_saw, then the winner check.
SpeedUpdate ==
    /\ pc = "update"
    /\ speed' = [o \in Orbs |-> capped(o)]
    /\ has_saw' = HasSawAfterDestroy(active_saws, SelfDestructing, has_saw)
    /\ active_saws' = SawsAfterUpdate
    /\ LET w1 == WinnerBySurvival
           w2 == WinnerByVictory(w1)
           wf == IF w2 # winner THEN frame_i ELSE win_frame
       IN
       /\ winner' = w2
       /\ win_frame' = wf
       /\ IF w2 # None /\ ~(frame_i - wf < VictoryFrames)
          THEN pc' = "done" /\ frame_i' = frame_i
          ELSE pc' = "loop" /\ frame_i' = frame_i + 1
    /\ UNCHANGED <<script, rate, max_hp, hp, is_shielded, saws_made, pickups, spawned,
                   bomb_count, victory_triggered, victory_orb, substep, log,
                   pos, impulse, vel, arena, pred, director>>

SpeedExhausted == FramesExhausted(SpeedSeconds)

SpeedNext ==
    \/ SpeedPhysics
    \/ SpeedUpdate
    \/ SpeedExhausted

SpeedSpec == Init /\ [][SpeedNext]_vars

\* The cap the claim names for orb o: by the saw o holds at the end of the tick.
CapInForce(o) ==
    IF has_saw[o] # NoSaw THEN 2 * MAX_ORB_VELOCITY ELSE MAX_ORB_VELOCITY

PredictSeconds == 4
ARENA_WIDTH_FROM_CFG == 600
BORDER_THICKNESS_CFG == 30
PRED_MAX_ORB_VELOCITY == 500
arena_min_size_ratio == 60
ARENA_UPDATE_SECONDS == 2
CLEANUP_SAFETY_MARGIN == 30

\* game_state at construction and the walls make_space builds.
ArenaAtStart ==
    [current_width |-> ARENA_WIDTH_FROM_CFG, offset_x |-> 0,
     wall_width |-> ARENA_WIDTH_FROM_CFG, wall_offset |-> 0,
     last_arena_update |-> 0]

\* update_arena_size(current_time, total_duration) at frame f: the size shrinks
\* linearly to arena_min_size_ratio (in percent here) of the original and the
\* arena stays centred; the walls of space are rebuilt when 2 s have passed
\* since the last rebuild.
update_arena_size(a, f) ==
    IF f <= 0 THEN a
    ELSE LET total     == frames_to_generate
             elapsed   == Min(f, total)
             new_width == ARENA_WIDTH_FROM_CFG
                            - (ARENA_WIDTH_FROM_CFG * (100 - arena_min_size_ratio) * elapsed)
                                \div (100 * total)
             offset_x  == (ARENA_WIDTH_FROM_CFG - new_width) \div 2
             rebuild   == f - a.last_arena_update >= Sec(ARENA_UPDATE_SECONDS)
         IN  [current_width |-> new_width, offset_x |-> offset_x,
              wall_width |-> IF rebuild THEN new_width ELSE a.wall_width,
              wall_offset |-> IF rebuild THEN offset_x ELSE a.wall_offset,
              last_arena_update |-> IF rebuild THEN f ELSE a.last_arena_update]

\* _cleanup_invalid_pickups: the alive pickups outside the current arena less
\* a margin of 30 px are destroyed and removed.
cleanup_invalid_pickups(pk, a) ==
    SelectSeq(pk, LAMBDA p :
        ~(p.alive /\ (p.at < a.offset_x + CLEANUP_SAFETY_MARGIN
                      \/ p.at > a.offset_x + a.current_width - CLEANUP_SAFETY_MARGIN)))

\* The velocity cap of the prediction loop.
cap_velocity(v) ==
    IF Abs(v) > PRED_MAX_ORB_VELOCITY
    THEN (IF v > 0 THEN PRED_MAX_ORB_VELOCITY ELSE -PRED_MAX_ORB_VELOCITY)
    ELSE v

\* The scratch world holds, per orb in the order A, B, C, the position and the
\* velocity of its proxy (entries of orbs without a proxy are not used).
\* temp_space.step(dt) for the proxies ids of the scratch world w, dt in
\* sixths of a second: damping 0.99 per second, free flight, reflection at
\* the walls whose inner edges are at 0 and arena_w (elasticity 1.0), and
\* exchange of velocities by two equal proxies that overlap while approaching.
temp_space_step(w, ids, arena_w, dt) ==
    LET PerOrb(f(_)) == <<f("A"), f("B"), f("C")>>
        R           == ORB_RADIUS_CFG
        damped(o)   == (w.v[OrbIndex[o]] * (600 - dt)) \div 600
        vd          == PerOrb(damped)
        moved(o)    == w.x[OrbIndex[o]] + (vd[OrbIndex[o]] * dt) \div 6
        xm          == PerOrb(moved)
        left(o)     == xm[OrbIndex[o]] - R < 0
        right(o)    == xm[OrbIndex[o]] + R > arena_w
        reflected(o) == IF left(o) THEN 2 * R - xm[OrbIndex[o]]
                        ELSE IF right(o) THEN 2 * (arena_w - R) - xm[OrbIndex[o]]
                        ELSE xm[OrbIndex[o]]
        bounced(o)  == IF left(o) \/ right(o) THEN -vd[OrbIndex[o]]
                       ELSE vd[OrbIndex[o]]
        x1          == PerOrb(reflected)
        v1          == PerOrb(bounced)
        partners(o) == {j \in ids \ {o} :
                          /\ Abs(x1[OrbIndex[o]] - x1[OrbIndex[j]]) < 2 * R
                          /\ (x1[OrbIndex[j]] - x1[OrbIndex[o]])
                                * (v1[OrbIndex[o]] - v1[OrbIndex[j]]) > 0}
        exchanged(o) == IF o \in ids /\ Cardinality(partners(o)) = 1
                        THEN v1[OrbIndex[CHOOSE j \in partners(o) : TRUE]]
                        ELSE v1[OrbIndex[o]]
    IN  [x |-> x1, v |-> PerOrb(exchanged)]

\* "for _ in range(main_game_physics_substeps): temp_space.step(actual_sub_dt)"
RECURSIVE temp_substeps(_, _, _, _, _)
temp_substeps(w, ids, arena_w, dt, k) ==
    IF k <= 0 THEN w
    ELSE temp_substeps(temp_space_step(w, ids, arena_w, dt), ids, arena_w, dt, k - 1)

\* "for _ in range(num_steps)": the cap, then the sub-steps of a frame.
RECURSIVE temp_frames(_, _, _, _, _)
temp_frames(w, ids, arena_w, dt, n) ==
    IF n <= 0 THEN w
    ELSE temp_frames(
            temp_substeps([x |-> w.x,
                           v |-> <<cap_velocity(w.v[1]), cap_velocity(w.v[2]),
                                   cap_velocity(w.v[3])>>],
                          ids, arena_w, dt, PHYSICS_SUBSTEPS),
            ids, arena_w, dt, n - 1)

\* predict_orb_future_path_point(target_orb_data, all_orbs_data,
\* game_env_params, duration_to_predict, num_steps): "duration_to_predict /
\* num_steps" raises ZeroDivisionError for num_steps = 0; otherwise the
\* scratch world is built from the data, stepped, and the position of the
\* target's proxy returned.  world is the scratch world at the end.
predict_orb_future_path_point(target, others, x, v, arena_w, duration_to_predict, num_steps) ==
    LET ids == {target} \cup others
        w0  == [x |-> <<x["A"], x["B"], x["C"]>>, v |-> <<v["A"], v["B"], v["C"]>>]
    IN
    IF num_steps = 0
    THEN [raised |-> TRUE, result |-> 0, world |-> w0]
    ELSE LET dt_per_simulation_step == duration_to_predict \div num_steps
             actual_sub_dt == dt_per_simulation_step \div PHYSICS_SUBSTEPS
             wf == temp_frames(w0, ids, arena_w, actual_sub_dt, num_steps)
         IN  [raised |-> FALSE, result |-> wf.x[OrbIndex[target]], world |-> wf]

\* A predictor that steps the bodies of the live orbs instead of proxies.
live_bodies_stepped(world) ==
    [x |-> [o \in Orbs |-> world.x[OrbIndex[o]]],
     v |-> [o \in Orbs |-> world.v[OrbIndex[o]]]]

\* The live bodies after a call that ended with the scratch world world: the
\* proxies are new pymunk.Body objects added to temp_space only, and the data
\* passed are Vec2d values, so the live positions and velocities stay.
live_bodies(world) == [x |-> pos, v |-> vel]

\* "int(prediction_duration / (1.0 / GAME_FPS))", duration in sixths of a
\* second; int truncates towards zero.
num_prediction_steps(duration) ==
    IF duration >= 0 THEN (duration * GAME_FPS) \div 6
    ELSE -((-duration * GAME_FPS) \div 6)

\* The clamp of the unified spawn: battle_context.arena_width is the width at
\* construction.
clamped_x(x) ==
    LET min_x == BORDER_THICKNESS_CFG + ORB_RADIUS_CFG + PICKUP_RADIUS_CFG
        max_x == ARENA_WIDTH_FROM_CFG - BORDER_THICKNESS_CFG - ORB_RADIUS_CFG
                    - PICKUP_RADIUS_CFG
    IN  Max(min_x, Min(x, max_x))

\* Positions and velocities the live physics leaves the orbs with.
LiveGeometries ==
    {[x |-> ("A" :> p[1] @@ "B" :> p[2] @@ "C" :> p[3]), v |-> w] :
        p \in {<<150, 300, 450>>, <<450, 300, 150>>},
        w \in {[o \in Orbs |-> -300], [o \in Orbs |-> 300],
               ("A" :> 300 @@ "B" :> -300 @@ "C" :> 600)}}

\* prediction_duration: EMERGENCY_HEART_PREDICTION_TIME_SECONDS (0.5 s) or a
\* draw of random.uniform(1.0, 1.8), in sixths of a second.
EMERGENCY_HEART_PREDICTION_TIME == 3
UnifiedDurations == {EMERGENCY_HEART_PREDICTION_TIME, 6, 9}

\* Requests to the predictor: a duration in sixths of a second and a number of
\* steps whose sub-step is a whole number of sixths.
Requests ==
    {r \in {-3, 0, 3, 6} \X (0..2) : r[2] = 0 \/ r[1] % (3 * r[2]) = 0}

\* Head of the frame and the sub-steps: update_arena_size (with the cleanup
\* when the walls are rebuilt), then the live physics moves the orbs, which
\* may collect the pickups.  No call of the predictor has been made in the
\* frame yet.
PredictFrame ==
    /\ pc = "loop"
    /\ frame_i < Sec(PredictSeconds)
    /\ LET a == update_arena_size(arena, frame_i)
           kept == IF a.last_arena_update # arena.last_arena_update
                   THEN cleanup_invalid_pickups(pickups, a) ELSE pickups
       IN  /\ arena' = a
           /\ pickups' \in {kept, <<>>}
    /\ \E g \in LiveGeometries : pos' = g.x /\ vel' = g.v
    /\ pred' = NoPred
    /\ pc' = "update"
    /\ UNCHANGED <<script, rate, max_hp, hp, is_shielded, has_saw, active_saws, saws_made,
                   spawned, bomb_count, victory_triggered, victory_orb, winner,
                   win_frame, frame_i, substep, log, impulse, speed, director>>

\* A call of the predictor for target with the other orbs as proxies, as the
\* director's predict_future_interactions makes it, for a requested duration
\* and number of steps; the frame body goes on to the unified spawn.
PredictRequest(target, duration, num_steps) ==
    /\ pc = "update"
    /\ pc' = "spawn"
    /\ LET p == predict_orb_future_path_point(target, Orbs \ {target}, pos, vel,
                    ARENA_WIDTH_FROM_CFG, duration, num_steps)
           live == live_bodies(p.world)
       IN  /\ pred' = [kind |-> "request", target |-> target,
                       others |-> Orbs \ {target}, pos |-> pos, vel |-> vel,
                       duration |-> duration, num_steps |-> num_steps,
                       raised |-> p.raised, result |-> p.result, spawn |-> 0]
           /\ pos' = live.x
           /\ vel' = live.v
    /\ UNCHANGED <<script, rate, max_hp, hp, is_shielded, has_saw, active_saws, saws_made,
                   pickups, spawned, bomb_count, victory_triggered, victory_orb,
                   winner, win_frame, frame_i, substep, log, impulse, speed,
                   arena, director>>

\* The rest of the frame body: when the unified spawn interval has passed and
\* the list is under the cap, a pickup is spawned for a living target at the
\* clamped predicted position: an emergency heart with the emergency
\* prediction time, another kind with a drawn duration.
PredictBody ==
    /\ pc \in {"update", "spawn"}
    /\ IF 2 * frame_i >= 2 * last_unified + 3 * GAME_FPS
       THEN /\ last_unified' = frame_i
            /\ IF UnderCap(Len(pickups)) /\ Living # {}
               THEN \E target \in Living, duration \in UnifiedDurations :
                     LET kind == IF duration = EMERGENCY_HEART_PREDICTION_TIME
                                 THEN "heart" ELSE "saw"
                         n == Max(1, num_prediction_steps(duration))
                         p == predict_orb_future_path_point(target,
                                  Living \ {target}, pos, vel,
                                  ARENA_WIDTH_FROM_CFG, duration, n)
                         live == live_bodies(p.world)
                         at == clamped_x(p.result)
                     IN  /\ pred' = [kind |-> "spawn",
                                     target |-> target, others |-> Living \ {target},
                                     pos |-> pos, vel |-> vel,
                                     duration |-> duration, num_steps |-> n,
                                     raised |-> p.raised, result |-> p.result,
                                     spawn |-> at]
                         /\ pos' = live.x
                         /\ vel' = live.v
                         /\ pickups' = Append(pickups,
                                [id |-> spawned + 1, kind |-> kind, alive |-> TRUE,
                                 at |-> at])
                         /\ spawned' = spawned + 1
               ELSE UNCHANGED <<pred, pos, vel, pickups, spawned>>
       ELSE UNCHANGED <<last_unified, pred, pos, vel, pickups, spawned>>
    /\ pc' = "loop"
    /\ frame_i' = frame_i + 1
    /\ UNCHANGED <<script, rate, max_hp, hp, is_shielded, has_saw, active_saws, saws_made,
                   bomb_count, victory_triggered, victory_orb, winner, win_frame,
                   substep, log, impulse, speed, arena, item_spawn_cooldowns,
                   last_analysis_time, ai_strategy, time_pressure,
                   health_change_history, bombs_made, spawn_log, assist_log,
                   collected>>

PredictExhausted == FramesExhausted(PredictSeconds)

PredictNext ==
    \/ PredictFrame
    \/ \E target \in Orbs, r \in Requests : PredictRequest(target, r[1], r[2])
    \/ PredictBody
    \/ PredictExhausted

PredictInit ==
    /\ max_hp \in DirectorConfigs
    /\ ConstructedObjects
    /\ DirectorAtStart
    /\ \E g \in LiveGeometries : pos = g.x /\ vel = g.v
    /\ impulse = NoImpulse
    /\ speed = NoSpeed
    /\ arena = ArenaAtStart
    /\ pred = NoPred

PredictSpec == PredictInit /\ [][PredictNext]_vars

\* A call of the predictor is made in a step that records it in pred.
PredictorCalled == pred'.kind # "none" /\ pred' # pred

\* The inputs of two recorded calls are identical.
SameInputs(p, q) ==
    /\ p.kind # "none" /\ q.kind # "none"
    /\ p.target = q.target /\ p.others = q.others
    /\ p.pos = q.pos /\ p.vel = q.vel
    /\ p.duration = q.duration /\ p.num_steps = q.num_steps

OneMinimumStep(p) ==
    predict_orb_future_path_point(p.target, p.others, p.pos, p.vel,
        ARENA_WIDTH_FROM_CFG, 6 \div GAME_FPS, 1).result

SafeInset == BORDER_THICKNESS_CFG + ORB_RADIUS_CFG + PICKUP_RADIUS_CFG

MaxEvents == 3
MaxEventTime == 3

\* The types _execute_event has a handler for, and the types of the files.
HandledTypes == {"spawn_pickup", "slowmo", "text_overlay"}
EventTypes == {"spawn_pickup", "slowmo", "text_overlay", "very_unknown_event",
               "unknown_event_type"}

\* The values of the YAML items: a scalar, null, or a mapping of scalars.
Scalar(s) == [is |-> "scalar", s |-> s, n |-> 0, m |-> {}]
Number(n) == [is |-> "number", s |-> "", n |-> n, m |-> {}]
Null == [is |-> "null", s |-> "", n |-> 0, m |-> {}]
Mapping(m) == [is |-> "mapping", s |-> "", n |-> 0, m |-> m]

\* The items an entry of the file has besides t and type, for each type: a
\* key at the top level, a null payload with a key at the top level, or a
\* payload mapping.
EntryData(type) ==
    CASE type = "spawn_pickup" -> {<<"kind", Scalar("heart")>>}
      [] type = "text_overlay" -> {<<"payload", Null>>, <<"text", Scalar("Hello")>>}
      [] type = "slowmo" -> {<<"payload", Mapping({<<"factor", Scalar("0.1")>>})>>}
      [] OTHER -> {<<"payload", Mapping({<<"data", Scalar("123")>>})>>}

\* The event files: up to MaxEvents events in any order of their times.
EventFiles ==
    UNION {[1..n -> [t : 1..MaxEventTime, type : EventTypes]] : n \in 0..MaxEvents}

\* Event(t, type, payload) of the i-th entry of the file: "t" and "type" are
\* popped from the entry and "payload = dict(event_data)" is what remains.
Event(file, i) ==
    [t |-> file[i].t, type |-> file[i].type, id |-> i,
     payload |-> EntryData(file[i].type)]

\* d[key] = value
set_item(d, key, value) == {it \in d : it[1] # key} \cup {<<key, value>>}

\* heapq._siftdown(heap, startpos, pos), pos being at here: newitem moves up while it is less
\* than its parent; Event orders by t alone (the other fields are
\* compare=False).
RECURSIVE siftdown_from(_, _, _, _)
siftdown_from(heap, startpos, at, newitem) ==
    IF at > startpos
    THEN LET parentpos == (at - 1) \div 2
             parent    == heap[parentpos + 1]
         IN  IF newitem.t < parent.t
             THEN siftdown_from([heap EXCEPT ![at + 1] = parent], startpos,
                                parentpos, newitem)
             ELSE [heap EXCEPT ![at + 1] = newitem]
    ELSE [heap EXCEPT ![at + 1] = newitem]

siftdown(heap, startpos, at) == siftdown_from(heap, startpos, at, heap[at + 1])

\* heapq._siftup(heap, at): the smaller child moves up until a leaf is
\* reached, then newitem is put there and sifted down.
RECURSIVE siftup_from(_, _, _, _)
siftup_from(heap, startpos, at, newitem) ==
    LET endpos   == Len(heap)
        childpos == 2 * at + 1
        rightpos == childpos + 1
        smaller  == IF rightpos < endpos
                       /\ ~(heap[childpos + 1].t < heap[rightpos + 1].t)
                    THEN rightpos ELSE childpos
    IN  IF childpos < endpos
        THEN siftup_from([heap EXCEPT ![at + 1] = heap[smaller + 1]], startpos,
                         smaller, newitem)
        ELSE siftdown([heap EXCEPT ![at + 1] = newitem], startpos, at)

\* A pop that leaves the last item at the head.
siftup_unsifted(heap, at) == heap

siftup(heap, at) == siftup_from(heap, at, at, heap[at + 1])

\* A push that leaves the new event at the end of the list.
heappush_unsifted(heap, item) == Append(heap, item)

\* heapq.heappush(heap, item)
heappush(heap, item) == siftdown(Append(heap, item), 0, Len(heap))

\* heapq.heappop(heap): the item at the head and the heap without it.
heappop(heap) ==
    LET lastelt == heap[Len(heap)]
        rest    == SubSeq(heap, 1, Len(heap) - 1)
    IN  IF rest # <<>>
        THEN [item |-> rest[1], heap |-> siftup([rest EXCEPT ![1] = lastelt], 0)]
        ELSE [item |-> lastelt, heap |-> rest]

\* _load_events: the events of the file are pushed in the order of the file.
RECURSIVE load_events(_, _, _)
load_events(heap, file, i) ==
    IF i > Len(file) THEN heap
    ELSE load_events(heappush(heap, Event(file, i)), file, i + 1)

\* A Director whose _execute_event calls no handler and raises for no type.
execute_event_lenient(event) ==
    [raised |-> FALSE, called |-> FALSE, handler |-> event.type,
     payload |-> set_item(event.payload, "event_time", Number(event.t))]

\* _execute_event(event, battle_instance): the event's time is stored in its
\* payload, then the handler of the event's type is called with the payload,
\* or ValueError is raised for a type without one.
execute_event(event) ==
    [raised |-> event.type \notin HandledTypes,
     called |-> event.type \in HandledTypes,
     handler |-> event.type,
     payload |-> set_item(event.payload, "event_time", Number(event.t))]

\* tick(now_sec, battle_instance): while the head is due it is popped and
\* executed; an exception of _execute_event ends the tick.  called are the
\* events whose handler was called and handed what the handlers received.
RECURSIVE tick(_, _, _, _)
tick(heap, called, handed, now_sec) ==
    IF heap # <<>> /\ heap[1].t <= now_sec
    THEN LET popped == heappop(heap)
             done   == execute_event(popped.item)
             called1 == IF done.called THEN Append(called, popped.item) ELSE called
             handed1 == IF done.called
                        THEN Append(handed, [handler |-> done.handler,
                                             payload |-> done.payload])
                        ELSE handed
         IN  IF done.raised
             THEN [events |-> popped.heap, called |-> called1, handed |-> handed1,
                   raised |-> TRUE, offender |-> popped.item]
             ELSE tick(popped.heap, called1, handed1, now_sec)
    ELSE [events |-> heap, called |-> called, handed |-> handed,
          raised |-> FALSE, offender |-> NoEvent]

\* Director(event_file_path); before is the file as Event objects.
DirectorConstructed(file) ==
    /\ last_tick.kind = "none"
    /\ events' = load_events(<<>>, file, 1)
    /\ last_tick' = [kind |-> "load", now |-> 0,
                     before |-> [i \in 1..Len(file) |-> Event(file, i)],
                     logged |-> 0, raised |-> FALSE, offender |-> NoEvent,
                     handed |-> <<>>]
    /\ UNCHANGED <<max_hp, hp, is_shielded, has_saw, active_saws, saws_made,
                   pickups, spawned, bomb_count, victory_triggered, victory_orb,
                   winner, win_frame, frame_i, substep, pc, log, geom, director,
                   event_log, rate>>

\* director.tick(now_sec, battle_instance); the handlers of battle_instance
\* are stood for by the log of the events they were called with.
DirectorTick(now_sec) ==
    /\ last_tick.kind # "none"
    /\ LET r == tick(events, <<>>, <<>>, now_sec)
       IN  /\ events' = r.events
           /\ event_log' = event_log \o r.called
           /\ last_tick' = [kind |-> "tick", now |-> now_sec, before |-> events,
                            logged |-> Len(event_log), raised |-> r.raised,
                            offender |-> r.offender, handed |-> r.handed]
    /\ UNCHANGED <<max_hp, hp, is_shielded, has_saw, active_saws, saws_made,
                   pickups, spawned, bomb_count, victory_triggered, victory_orb,
                   winner, win_frame, frame_i, substep, pc, log, geom, director,
                   rate>>

ScriptNext ==
    \/ \E file \in EventFiles : DirectorConstructed(file)
    \/ \E now_sec \in 0..MaxEventTime : DirectorTick(now_sec)

ScriptInit == max_hp = [o \in Orbs |-> MaxHP] /\ Constructed

ScriptSpec == ScriptInit /\ [][ScriptNext]_vars

Range(s) == {s[i] : i \in 1..Len(s)}

\* The events the last tick executed, in the order of their execution, and
\* the events that were due when it began.
ExecutedByLastTick == SubSeq(event_log, last_tick.logged + 1, Len(event_log))
DueAtLastTick == {e \in Range(last_tick.before) : e.t <= last_tick.now}

UnknownType(e) == e.type \notin HandledTypes
DueUnknownAtLastTick == {e \in DueAtLastTick : UnknownType(e)}

\* C31 (as stated): the file's events of unknown type are queued by the load,
\* which does not raise; a tick whose time reaches the t of a queued event of
\* unknown type raises ValueError naming that event's type, and a tick whose
\* time does not reach it leaves the event queued and does not raise for it.
C31_UnknownRaisesAtFirstDueTick ==
    /\ last_tick.kind = "load" =>
          (~last_tick.raised /\ Range(events) = Range(last_tick.before))
    /\ last_tick.kind = "tick" =>
          \A e \in Range(last_tick.before) : UnknownType(e) =>
              IF e.t <= last_tick.now
              THEN last_tick.raised /\ last_tick.offender.type = e.type
              ELSE e \in Range(events) /\ last_tick.offender # e

\* C31 (amended): the load queues every event and does not raise; a tick
\* raises exactly when an event of unknown type is queued and due, and it
\* raises for one of them of minimum t, which it removes; the other events of
\* unknown type, due or not, stay queued, so that a tick never raises for an
\* event before its time reaches the event's t.
C31_EarliestUnknownRaises ==
    /\ last_tick.kind = "load" =>
          (~last_tick.raised /\ Range(events) = Range(last_tick.before))
    /\ last_tick.kind = "tick" =>
          /\ last_tick.raised <=> DueUnknownAtLastTick # {}
          /\ last_tick.raised =>
                /\ last_tick.offender \in DueUnknownAtLastTick
                /\ \A e \in DueUnknownAtLastTick : last_tick.offender.t <= e.t
                /\ last_tick.offender \notin Range(events)
          /\ \A e \in Range(last_tick.before) :
                (UnknownType(e) /\ e # last_tick.offender) => e \in Range(events)

\* C31 witness: a tick has raised for an event of unknown type while another
\* one of a different type was due as well, and that one is still queued.
C31_Witness ==
    /\ last_tick.kind = "tick" /\ last_tick.raised
    /\ \E e \in Range(events) :
          /\ UnknownType(e) /\ e.t <= last_tick.now
          /\ e.type # last_tick.offender.type

\* The data of an entry of the file: the contents of its payload mapping and
\* its items at the top level other than t, type and payload; a null payload
\* has no contents.
OwnData(entry) ==
    {it \in entry : it[1] # "payload"}
        \cup UNION {it[2].m : it \in {x \in entry : x[1] = "payload"}}

\* C32: the payload each handler received in the last tick is exactly the
\* data of its event's entry in the file, with no key added by the Director.
C32_HandlerGetsOwnData ==
    last_tick.kind = "tick" =>
        \A i \in 1..Len(last_tick.handed) :
            last_tick.handed[i].payload
                = OwnData(EntryData(ExecutedByLastTick[i].type))

\* C40: when a tick raises for an event of unknown type, the events it has
\* executed are due events, each once and in non-decreasing order of t, among
\* them every due event earlier than the offending one; the offending event
\* is gone from the queue; every other event is still queued, with an event
\* of minimum t at the head; and the next tick that returns executes exactly
\* the queued events that are due at its time.
C40_RaisingTickKeepsQueue ==
    /\ [](last_tick.kind = "tick" /\ last_tick.raised =>
            /\ Range(ExecutedByLastTick) \subseteq DueAtLastTick
            /\ Len(ExecutedByLastTick) = Cardinality(Range(ExecutedByLastTick))
            /\ \A e \in DueAtLastTick :
                  e.t < last_tick.offender.t => e \in Range(ExecutedByLastTick)
            /\ \A i, j \in 1..Len(ExecutedByLastTick) :
                  i < j => ExecutedByLastTick[i].t <= ExecutedByLastTick[j].t
            /\ \A e \in Range(ExecutedByLastTick) : e.t <= last_tick.offender.t
            /\ last_tick.offender \notin Range(events)
            /\ Range(events) = Range(last_tick.before)
                  \ (Range(ExecutedByLastTick) \cup {last_tick.offender})
            /\ Len(events) = Cardinality(Range(events))
            /\ \A e \in Range(events) : events[1].t <= e.t)
    /\ [][(last_tick.kind = "tick" /\ last_tick.raised
            /\ last_tick'.kind = "tick" /\ ~last_tick'.raised) =>
            /\ Range(SubSeq(event_log', Len(event_log) + 1, Len(event_log')))
                  = {e \in Range(events) : e.t <= last_tick'.now}
            /\ Range(events') = {e \in Range(events) : e.t > last_tick'.now}]_vars

\* C40 witness: a tick has raised after executing an event, and an event of a
\* known type that was due in that tick is still queued.
C40_Witness ==
    /\ last_tick.kind = "tick" /\ last_tick.raised
    /\ ExecutedByLastTick # <<>>
    /\ \E e \in Range(events) : e.t <= last_tick.now /\ ~UnknownType(e)

\* ---------------------------------------------------------------------------
\* The damage rate of the director.  Times are counted in frames (1 / GAME_FPS
\* s), the game time as well as the wall clock.  The frames between two
\* health changes pass in one step of RateStride seconds of game time, during
\* which the wall clock advances by as much, by half as much (a run that
\* renders faster than real time) or by twice as much.  An entry of the event
\* lists carries, besides what the code stores, the game time it was made at.
\* ---------------------------------------------------------------------------
RateSeconds == 50
RateStride == 10
MaxChanges == 3
EpochAtStart == 1000000
lookback_time == 20
HISTORY_SECONDS == 30

\* time.time(): the time since the epoch, the program having started
\* EpochAtStart after it.
time_time == EpochAtStart + wall_clock

RECURSIVE SumOf(_, _)
SumOf(seq, field) ==
    IF seq = <<>> THEN 0 ELSE Head(seq)[field] + SumOf(Tail(seq), field)

\* calculate_damage_rate(current_time, lookback_time=20.0), as the net damage
\* per lookback_time: the events with "event['time'] > cutoff_time" count.
calculate_damage_rate(current_time) ==
    LET cutoff_time   == current_time - Sec(lookback_time)
        recent_damage == SelectSeq(damage_events, LAMBDA e : e.time > cutoff_time)
        recent_heals  == SelectSeq(heal_events, LAMBDA e : e.time > cutoff_time)
    IN  IF recent_damage = <<>> /\ recent_heals = <<>> THEN 0
        ELSE SumOf(recent_damage, "amount") - SumOf(recent_heals, "amount")

\* track_health_change(orb_name, old_hp, new_hp, current_time, reason), its
\* part for the rate: a damage or a heal event is appended with current_time
\* as its time, then the events with "time > current_time - 30.0" are kept.
track_damage_and_heal(old_hp, new_hp, current_time) ==
    LET cutoff_time == current_time - Sec(HISTORY_SECONDS)
        damaged == IF new_hp < old_hp
                   THEN Append(damage_events, [amount |-> old_hp - new_hp,
                                  time |-> current_time, game |-> now])
                   ELSE damage_events
        healed  == IF new_hp > old_hp
                   THEN Append(heal_events, [amount |-> new_hp - old_hp,
                                  time |-> current_time, game |-> now])
                   ELSE heal_events
    IN  [damage_events |-> SelectSeq(damaged, LAMBDA e : e.time > cutoff_time),
         heal_events   |-> SelectSeq(healed, LAMBDA e : e.time > cutoff_time)]

\* The frames of RateStride seconds of game time pass without a health
\* change.
RatePass ==
    /\ pc = "loop"
    /\ frame_i < Sec(RateSeconds)
    /\ frame_i' = frame_i + Sec(RateStride)
    /\ \E w \in {Sec(RateStride) \div 2, Sec(RateStride), 2 * Sec(RateStride)} :
          wall_clock' = wall_clock + w
    /\ UNCHANGED <<script, max_hp, hp, is_shielded, has_saw, active_saws,
                   saws_made, pickups, spawned, bomb_count, victory_triggered,
                   victory_orb, winner, win_frame, substep, pc, log, geom,
                   director, damage_events, heal_events, changes, damage_rate>>

\* The health_change_callback of Orb.take_hit and Orb.heal: the director's
\* track_health_change is called with time.time() as current_time.
RateTracked(o, new_hp) ==
    LET r == track_damage_and_heal(hp[o], new_hp, time_time)
    IN  /\ damage_events' = r.damage_events
        /\ heal_events' = r.heal_events
        /\ changes' = Append(changes, [change |-> new_hp - hp[o], game |-> now])

\* A saw hit on the living orb o in the physics of the frame.
RateHit(o) ==
    /\ pc = "loop"
    /\ Len(changes) < MaxChanges
    /\ o \in Living
    /\ LET r == take_hit(o, SAW_DAMAGE)
       IN  /\ r.notified
           /\ hp' = [hp EXCEPT ![o] = r.hp]
           /\ is_shielded' = [is_shielded EXCEPT ![o] = r.is_shielded]
           /\ RateTracked(o, r.hp)
    /\ UNCHANGED <<script, max_hp, has_saw, active_saws, saws_made, pickups,
                   spawned, bomb_count, victory_triggered, victory_orb, winner,
                   win_frame, frame_i, substep, pc, log, geom, director,
                   wall_clock, damage_rate>>

\* A heart collected by the living orb o in the physics of the frame.
RateHeal(o) ==
    /\ pc = "loop"
    /\ Len(changes) < MaxChanges
    /\ o \in Living
    /\ LET r == heal(o, HEAL_AMOUNT)
       IN  /\ r.notified
           /\ hp' = [hp EXCEPT ![o] = r.hp]
           /\ RateTracked(o, r.hp)
    /\ UNCHANGED <<script, max_hp, is_shielded, has_saw, active_saws, saws_made,
                   pickups, spawned, bomb_count, victory_triggered, victory_orb,
                   winner, win_frame, frame_i, substep, pc, log, geom, director,
                   wall_clock, damage_rate>>

\* "damage_rate = battle_director.calculate_damage_rate(current_game_time_sec)"
RateQuery ==
    /\ pc = "loop"
    /\ damage_rate.time # now
    /\ damage_rate' = [time |-> now, net |-> calculate_damage_rate(now),
                       seen |-> Len(changes)]
    /\ UNCHANGED <<script, max_hp, hp, is_shielded, has_saw, active_saws,
                   saws_made, pickups, spawned, bomb_count, victory_triggered,
                   victory_orb, winner, win_frame, frame_i, substep, pc, log,
                   geom, director, damage_events, heal_events, wall_clock,
                   changes>>

RateExhausted == FramesExhausted(RateSeconds)

RateNext ==
    \/ RatePass
    \/ \E o \in Orbs : RateHit(o)
    \/ \E o \in Orbs : RateHeal(o)
    \/ RateQuery
    \/ RateExhausted

RateInit == max_hp = [o \in Orbs |-> MaxHP] /\ Constructed

RateSpec == RateInit /\ [][RateNext]_vars

\* The net damage of the first n health changes that happened in the window
\* (T - 20 s, T] of game time.
WindowNet(T, n) ==
    SumOf(SelectSeq(SubSeq(changes, 1, n),
                    LAMBDA c : c.game > T - Sec(lookback_time) /\ c.game <= T),
          "change") * (-1)

\* C33: the rate computed at game time T counts exactly the damage and heal
\* events tracked before it that happened in the window (T - 20 s, T] of game time; the event
\* lists hold exactly the events of the 30 s of game time before the last
\* tracked change; and the time recorded in an event is the game time it
\* happened at.
C33_RateCountsWindow ==
    /\ damage_rate.time >= 0 =>
          damage_rate.net = WindowNet(damage_rate.time, damage_rate.seen)
    /\ changes # <<>> =>
          LET last == changes[Len(changes)].game
              kept == {c \in Range(changes) : c.game > last - Sec(HISTORY_SECONDS)}
          IN  {e.game : e \in Range(damage_events) \cup Range(heal_events)}
                  = {c.game : c \in kept}
    /\ \A e \in Range(damage_events) \cup Range(heal_events) : e.time = e.game

\* The director's analysis is due in the frame body about to run.
AnalysisDue == pc = "update" /\ now >= last_analysis_time + Sec(analysis_interval)

\* The plan ends with the two forced saws.
EndsWithForcedSaws(plan) ==
    Len(plan) >= 2 /\ SubSeq(plan, Len(plan) - 1, Len(plan)) = <<"saw", "saw">>

\* C34: at every analysis of the director whose game time is later than
\* max_game_duration - 8 s (62 s), whatever the time pressure, the plan of
\* immediate spawns holds the two forced saws.
C34_ForcedSawsInLastSeconds ==
    (AnalysisDue /\ now > Sec(max_game_duration - 8)) =>
        \A tp \in Pressures : EndsWithForcedSaws(generate_immediate_spawns(tp))

\* ------------------------------------------------------ the end of a match
\* C35: a bomb explosion never takes an agent's HP to 0 when that leaves at
\* most one agent with HP > 0.
C35_BombNeverEndsGame ==
    [][(log'.branch = "bomb" /\ log' # log)
        => ~(/\ \E o \in Orbs : hp[o] > 0 /\ hp'[o] = 0
             /\ Cardinality({o \in Orbs : hp'[o] > 0}) <= 1)]_vars

\* C36: the agent declared winner has HP > 0 in the state in which winner is
\* set to it.
C36_WinnerAliveWhenDeclared ==
    [][(winner = None /\ winner' # None) => hp'[winner'] > 0]_vars

\* C37: once winner is set, no later step sets it to another agent or back
\* to None.
C37_WinnerStable == [][winner # None => winner' = winner]_vars

\* A later frame than the one that set the winner, in which the winner has
\* since lost its last HP and a saw hit has recorded another agent as
\* victory_orb.
C37_Witness ==
    /\ winner # None
    /\ frame_i > win_frame + 1
    /\ hp[winner] = 0
    /\ victory_triggered
    /\ victory_orb # winner

\* C38: between two frames every has_saw is None or an alive saw of
\* active_saws owned by that agent; a step that destroys an alive saw of
\* active_saws leaves no agent's has_saw referring to it; a saw that is
\* already destroyed is left as it is by every later destroy.
AliveSawIn(saws, id) == \E j \in DOMAIN saws : saws[j].id = id /\ saws[j].alive

C38_SawBookkeeping ==
    /\ [](pc = "loop" =>
            \A o \in Orbs :
                has_saw[o] # NoSaw =>
                    \E i \in DOMAIN active_saws :
                        /\ active_saws[i].id = has_saw[o]
                        /\ active_saws[i].alive
                        /\ active_saws[i].owner = o)
    /\ [][\A i \in DOMAIN active_saws :
            LET s == active_saws[i] IN
            /\ (s.alive /\ ~AliveSawIn(active_saws', s.id))
                    => \A o \in Orbs : has_saw'[o] # s.id
            /\ ~s.alive
                    => \A j \in DOMAIN active_saws' :
                          active_saws'[j].id = s.id => active_saws'[j] = s]_vars

\* Between two frames an agent holds a saw after an earlier saw was
\* destroyed and removed from active_saws.
C38_Witness ==
    /\ pc = "loop"
    /\ saws_made >= 2
    /\ Len(active_saws) = 1
    /\ \E o \in Orbs : has_saw[o] # NoSaw

\* C39: when an analysis is due, every plan generate_immediate_spawns can
\* return that holds a heart has a target, critical_orbs[0], with HP > 0.
C39_HeartTargetsLiving ==
    AnalysisDue =>
        \A tp \in Pressures :
            "heart" \in Range(generate_immediate_spawns(tp)) => hp[FirstCritical] > 0

====
